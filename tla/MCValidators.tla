---------------------------- MODULE MCValidators ----------------------------
EXTENDS Validators

\* Two good antipatterns with one id, of which the second counts, one against
\* its schema, one whose expression does not compile; a good standard, one that
\* cannot be read, and one that no schema keeps out: their schema is missing,
\* so that every detection of standards raises, and none of antipatterns.
File(kind, number, id, content, severity, detect) ==
  [kind |-> kind, number |-> number, id |-> id, content |-> content,
   severity |-> severity, detect |-> detect]

MCKbFiles == {
  File("pattern", 1, "posting", "valid", "info", "bsl_ls_rule"),
  File("antipattern", 1, "query-in-loop", "valid", "warning", "regex"),
  File("antipattern", 2, "no-pattern", "off_schema", "warning", "no_pattern"),
  File("antipattern", 3, "bad-regex", "valid", "critical", "bad_regex"),
  File("antipattern", 4, "query-in-loop", "valid", "critical", "regex"),
  File("standard", 1, "no-tabs", "valid", "critical", "regex"),
  File("standard", 2, "unread", "unreadable", "critical", "regex"),
  File("standard", 3, "no-pattern", "off_schema", "info", "no_pattern")}

MCMethods == {"If", "Lock", "Ask"}
MCAvailability == [v1 |-> [Lock |-> {"server"}], v2 |-> [Ask |-> {"thin_client"}]]

Issue(id, severity, fault) == [id |-> id, severity |-> severity, fault |-> fault]

MCCodes == {
  [issues |-> <<Issue("parse", "error", "none"), Issue("odd", "2", "rejected")>>,
   matched |-> {"no-tabs"}, calls |-> <<"Lock">>, context |-> "thin_client"],
  [issues |-> <<Issue("style", "hint", "none"), Issue("odd", "1", "unparsable"), Issue("lost", "1", "none")>>,
   matched |-> {"query-in-loop", "bad-regex"}, calls |-> <<"If">>, context |-> "server"]}

MCSchemaSets == {{"pattern", "antipattern"}}

=============================================================================
