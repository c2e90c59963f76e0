----------------------------- MODULE FormFields -----------------------------
(***************************************************************************)
(* The forms of the admin pages: for each field the check the form makes   *)
(* before it sends, the conversions between the stored value, the form and *)
(* the value sent, and the input that shows it.                            *)
(*                                                                         *)
(* A value is "none" (empty text, 0, unchecked, nothing chosen), one of    *)
(* two ordinary values, "odd" (a value the input or the store can hold but *)
(* that this field treats differently) or "junk" (typed text that is no    *)
(* list of numbers, no URL or no JSON).                                    *)
(***************************************************************************)
Value == {"none", "one", "two", "odd", "junk"}

\* What a check refuses.  An empty number is coerced to 0; "least" has a least
\* value above 0 and finds odd, smaller ones; the odd number of "whole" and
\* "int" is a fraction.  asOptionalField lets the empty text pass.
Refused ==
  [any |-> {}, flag |-> {}, filled |-> {"none"}, url |-> {"none", "junk"},
   optional_url |-> {"junk"}, json |-> {"junk"}, int |-> {"odd"}, whole |-> {"odd"},
   least |-> {"none", "odd"}, optional_least |-> {"odd"}]

\* Values the store may hold that the form did not put there.
StoredOdd(check, codec) ==
  \/ codec = "flags"
  \/ codec \in {"same", "merged"} /\ check \in {"whole", "least", "optional_least"}

\* conv.recordToStrArr shows the keys of a record of flags, arrToRecord sends each
\* as TRUE: an entry that was FALSE becomes TRUE.
Load(codec, v) == IF codec = "flags" /\ v = "odd" THEN "one" ELSE v

-----------------------------------------------------------------------------
(* The forms *)

ServiceChecks ==
  [cover |-> "int", display_index |-> "int", duration |-> "least",
   enable_show_in_service |-> "flag", enable_trigger_task |-> "flag",
   fail_trigger_tasks |-> "any", latency_notify |-> "flag", max_latency |-> "whole",
   min_latency |-> "whole", name |-> "filled", notification_group_id |-> "int",
   notify |-> "flag", recover_trigger_tasks |-> "any", skip_servers |-> "any",
   target |-> "any", type |-> "int"]
ServiceCodecs ==
  [skip_servers |-> "flags", fail_trigger_tasks |-> "numbers",
   recover_trigger_tasks |-> "numbers"]
ServiceProbeInputs ==
  [name |-> "text", display_index |-> "number", target |-> "text", type |-> "select",
   enable_show_in_service |-> "checkbox", duration |-> "number", cover |-> "select"]
ServiceNoticeInputs ==
  [skip_servers |-> "multi", notification_group_id |-> "combo", notify |-> "checkbox",
   max_latency |-> "number", min_latency |-> "number", latency_notify |-> "checkbox",
   enable_trigger_task |-> "checkbox", fail_trigger_tasks |-> "text",
   recover_trigger_tasks |-> "text"]

CronChecks ==
  [task_type |-> "int", name |-> "filled", scheduler |-> "any", command |-> "any",
   servers |-> "any", cover |-> "int", push_successful |-> "flag",
   notification_group_id |-> "int"]
CronInputs ==
  [name |-> "text", task_type |-> "select", scheduler |-> "text", command |-> "text",
   cover |-> "select", servers |-> "multi", notification_group_id |-> "combo",
   push_successful |-> "checkbox"]

DDNSChecks ==
  [max_retries |-> "least", enable_ipv4 |-> "flag", enable_ipv6 |-> "flag",
   name |-> "filled", provider |-> "any", domains |-> "any", access_id |-> "any",
   access_secret |-> "any", webhook_url |-> "optional_url",
   webhook_method |-> "optional_least", webhook_request_type |-> "optional_least",
   webhook_request_body |-> "any", webhook_headers |-> "any"]
DDNSCodecs == [domains |-> "names"]
DDNSProfileInputs ==
  [name |-> "text", provider |-> "select", domains |-> "text", access_id |-> "text",
   access_secret |-> "text", max_retries |-> "number", webhook_url |-> "text"]
DDNSWebhookInputs ==
  [webhook_method |-> "select", webhook_request_type |-> "select",
   webhook_headers |-> "text", webhook_request_body |-> "text",
   enable_ipv4 |-> "checkbox", enable_ipv6 |-> "checkbox"]

NotifierChecks ==
  [name |-> "filled", url |-> "url", request_method |-> "least",
   request_type |-> "least", request_header |-> "any", request_body |-> "any",
   verify_tls |-> "flag", skip_check |-> "flag", format_metric_units |-> "flag"]
NotifierInputs ==
  [name |-> "text", url |-> "text", request_method |-> "select",
   request_type |-> "select", request_header |-> "text", request_body |-> "text",
   verify_tls |-> "checkbox", skip_check |-> "checkbox",
   format_metric_units |-> "checkbox"]

NATChecks ==
  [name |-> "filled", enabled |-> "flag", server_id |-> "int", host |-> "any",
   domain |-> "any"]
NATInputs ==
  [name |-> "text", server_id |-> "number", host |-> "text", domain |-> "text",
   enabled |-> "checkbox"]

UserChecks == [username |-> "filled", role |-> "int", password |-> "least"]
UserInputs == [username |-> "text", password |-> "text", role |-> "select"]

ServerGroupChecks == [name |-> "filled", servers |-> "any"]
ServerGroupInputs == [name |-> "text", servers |-> "multi"]
NotificationGroupChecks == [name |-> "filled", notifications |-> "any"]
NotificationGroupInputs == [name |-> "text", notifications |-> "multi"]

\* The rules of an alert have an editor of their own (RuleEditor).
AlertRuleChecks ==
  [name |-> "filled", fail_trigger_tasks |-> "any", recover_trigger_tasks |-> "any",
   notification_group_id |-> "int", trigger_mode |-> "int", enable |-> "flag"]
AlertRuleCodecs == [fail_trigger_tasks |-> "numbers", recover_trigger_tasks |-> "numbers"]
AlertRuleInputs ==
  [name |-> "text", notification_group_id |-> "combo", trigger_mode |-> "select",
   fail_trigger_tasks |-> "text", recover_trigger_tasks |-> "text", enable |-> "checkbox"]

\* The public note of a server has an editor of its own (PublicNoteEditor).
ServerChecks ==
  [name |-> "filled", note |-> "any", display_index |-> "int",
   hide_for_guest |-> "flag", enable_ddns |-> "flag", ddns_profiles |-> "any",
   override_ddns_domains |-> "json"]
ServerCodecs == [ddns_profiles |-> "numbers", override_ddns_domains |-> "shape"]
ServerInputs ==
  [name |-> "text", display_index |-> "number", ddns_profiles |-> "text",
   override_ddns_domains |-> "text", enable_ddns |-> "checkbox",
   hide_for_guest |-> "checkbox", note |-> "text"]

SettingChecks ==
  [dns_servers |-> "any", ignored_ip_notification |-> "any",
   ip_change_notification_group_id |-> "int", cover |-> "least",
   site_name |-> "filled", language |-> "filled", user_template |-> "filled",
   install_host |-> "any", custom_code |-> "any", custom_code_dashboard |-> "any",
   web_real_ip_header |-> "any", agent_real_ip_header |-> "any", tls |-> "flag",
   enable_ip_change_notification |-> "flag", enable_plain_ip_in_notification |-> "flag"]
SettingSiteInputs ==
  [site_name |-> "text", language |-> "chosen", user_template |-> "chosen",
   custom_code |-> "text", custom_code_dashboard |-> "text", install_host |-> "text",
   tls |-> "checkbox"]
SettingAddressInputs ==
  [dns_servers |-> "text", web_real_ip_header |-> "text", agent_real_ip_header |-> "text"]
SettingNoticeInputs ==
  [cover |-> "chosen", ignored_ip_notification |-> "text",
   ip_change_notification_group_id |-> "combo",
   enable_ip_change_notification |-> "checkbox",
   enable_plain_ip_in_notification |-> "checkbox"]

\* The ten flags of an agent stand for themselves; the agent merges what is sent
\* into its configuration (merge_json): an absent value, and a key absent from a
\* record, stay as they are.
ConfigChecks ==
  [debug |-> "flag", disable_command_execute |-> "flag", gpu |-> "flag",
   ip_report_period |-> "optional_least", report_delay |-> "optional_least",
   hard_drive_partition_allowlist |-> "json", nic_allowlist |-> "json"]
ConfigCodecs ==
  [ip_report_period |-> "merged", report_delay |-> "merged",
   hard_drive_partition_allowlist |-> "merged", nic_allowlist |-> "merged_keys"]
ConfigInputs ==
  [ip_report_period |-> "number", report_delay |-> "number",
   hard_drive_partition_allowlist |-> "text", nic_allowlist |-> "text",
   debug |-> "checkbox", disable_command_execute |-> "checkbox", gpu |-> "checkbox"]

\* Where a form stands: in a row of a table, in the header of a page to create an
\* entry, as the page itself, or in a dialog that asks for the values on opening.
Form(places, checks, codecs, inputs) ==
  [places |-> places, checks |-> checks, codecs |-> codecs, inputs |-> inputs]

\* The inputs of a card in several parts.
Beside(part, other) ==
  [x \in DOMAIN part \union DOMAIN other |-> IF x \in DOMAIN part THEN part[x] ELSE other[x]]

Listed == {"row", "header"}
NoCodecs == [x \in {} |-> "same"]

ServiceForm ==
  Form(Listed, ServiceChecks, ServiceCodecs, Beside(ServiceProbeInputs, ServiceNoticeInputs))
CronForm == Form(Listed, CronChecks, NoCodecs, CronInputs)
DDNSForm ==
  Form(Listed, DDNSChecks, DDNSCodecs, Beside(DDNSProfileInputs, DDNSWebhookInputs))
NotifierForm == Form(Listed, NotifierChecks, NoCodecs, NotifierInputs)
AlertRuleForm == Form(Listed, AlertRuleChecks, AlertRuleCodecs, AlertRuleInputs)
NATForm == Form(Listed, NATChecks, NoCodecs, NATInputs)
UserForm == Form({"header"}, UserChecks, NoCodecs, UserInputs)
ServerGroupForm == Form(Listed, ServerGroupChecks, NoCodecs, ServerGroupInputs)
NotificationGroupForm ==
  Form(Listed, NotificationGroupChecks, NoCodecs, NotificationGroupInputs)
ServerForm == Form({"server"}, ServerChecks, ServerCodecs, ServerInputs)
SettingForm ==
  Form({"page"}, SettingChecks, NoCodecs,
       Beside(SettingSiteInputs, Beside(SettingAddressInputs, SettingNoticeInputs)))
ConfigForm == Form({"ask"}, ConfigChecks, ConfigCodecs, ConfigInputs)

Forms == {ServiceForm, CronForm, DDNSForm, NotifierForm, AlertRuleForm, NATForm, UserForm,
          ServerGroupForm, NotificationGroupForm, ServerForm, SettingForm, ConfigForm}

\* A choice is a whole number in any case.
Checked(check, input) ==
  IF check = "int" /\ input \in {"select", "combo"} THEN "any" ELSE check

\* What tells one field from another.
Trait(f, p, x) ==
  [place |-> p, check |-> Checked(f.checks[x], f.inputs[x]), input |-> f.inputs[x],
   codec |-> IF x \in DOMAIN f.codecs THEN f.codecs[x] ELSE "same"]

Traits ==
  UNION { UNION { { Trait(f, p, x) : x \in DOMAIN f.checks } : p \in f.places } : f \in Forms }
=============================================================================
