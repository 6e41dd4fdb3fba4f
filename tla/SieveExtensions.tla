--------------------------- MODULE SieveExtensions ---------------------------
(***************************************************************************)
(* The commands and tests of the extensions under lib-sieve/plugins and of *)
(* the extprograms plugin, described as in SieveCommands.                  *)
(***************************************************************************)
EXTENDS SieveCommands

List   == sieve_opr_stringlist_read
String == sieve_opr_string_read
Number == sieve_opr_number_read
MatchOptions(more)  == Options(sieve_match_opr_optional_read @@ more)
ActionOptions(more) == Options(sieve_action_opr_optional_read @@ more)
KeepParam(takes)    == Rule(takes, "param")      \* the tag gives way to its parameter
KeepFlag            == Rule({}, "tag")

\* body
tag_body_transform_validate(takes) == Group(Rule(takes, "tag"), "transform")
tag_body_transform_generate(takes) == IF takes = {} THEN <<"transform">> ELSE <<"transform:content", "?">>
tst_body_registered == MatchTags \cup Register(3,
  {Plain("raw", tag_body_transform_validate({}), tag_body_transform_generate({})),
   Plain("content", tag_body_transform_validate(AStringList), tag_body_transform_generate(AStringList))})
tst_body_validate          == Exactly(<<AStringList>>)
tst_body_generate          == sieve_generate_arguments_only
ext_body_operation_dump    == Reads(<<MatchOptions(3 :> <<Operand({"transform", "transform:content"})>>), List>>)
ext_body_operation_execute == Reads(<<MatchOptions(3 :> <<Operand({"transform", "transform:content"})>>), List>>)
body_test == Command(tst_body_registered, tst_body_validate, tst_body_generate,
                     ext_body_operation_dump, ext_body_operation_execute)

\* date.  The interpreter clears its list of message overrides with every option that it
\* takes out of the optional block itself, that is with :zone and :originalzone.
tag_zone_validate(takes) == Group(Rule(takes, "tag"), "zone")
tag_zone_generate(takes) == IF takes = {} THEN <<"omitted">> ELSE <<"?">>
date_zone_tag            == Plain("zone", tag_zone_validate(AString), tag_zone_generate(AString))
date_originalzone_tag    == Plain("originalzone", tag_zone_validate({}), tag_zone_generate({}))
tst_date_registered        == MatchTags \cup Register(4, {date_zone_tag, date_originalzone_tag}) \cup ext_index_validator_load
tst_currentdate_registered == MatchTags \cup Register(4, {date_zone_tag})
tst_date_validate(header)  == Exactly(IF header THEN <<AString, AString, AStringList>> ELSE <<AString, AStringList>>)
tst_date_generate          == sieve_generate_arguments_only
ZoneOption == 4 :> <<sieve_opr_string_read_ex>>
tst_date_operation_dump(header) ==
  Reads(<<Options(sieve_message_opr_optional_dump(sieve_match_opr_optional_dump) @@ ZoneOption)>>
        \o (IF header THEN <<String>> ELSE <<>>) \o <<String, List>>)
tst_date_operation_execute(header) ==
  Forgets(Reads(<<Options(sieve_message_opr_optional_read(sieve_match_opr_optional_read) @@ ZoneOption)>>
                \o (IF header THEN <<List>> ELSE <<>>) \o <<String, List>>), {4})
date_test == Command(tst_date_registered, tst_date_validate(TRUE), tst_date_generate,
                     tst_date_operation_dump(TRUE), tst_date_operation_execute(TRUE))
currentdate_test == Command(tst_currentdate_registered, tst_date_validate(FALSE), tst_date_generate,
                            tst_date_operation_dump(FALSE), tst_date_operation_execute(FALSE))

\* duplicate
tst_duplicate_validate_number_tag == KeepParam(ANumber)
tst_duplicate_validate_string_tag == KeepParam(AString)
duplicate_last_tag == Plain("last", KeepFlag, <<>>)
tst_duplicate_registered ==
  Register(1, {Plain("seconds", tst_duplicate_validate_number_tag, <<"?">>)}) \cup
  Register(2, {Plain("header", Group(tst_duplicate_validate_string_tag, "id"), <<"?">>)}) \cup
  Register(3, {Plain("uniqueid", Group(tst_duplicate_validate_string_tag, "id"), <<"?">>)}) \cup
  Register(4, {duplicate_last_tag}) \cup
  Register(5, {Plain("handle", tst_duplicate_validate_string_tag, <<"?">>)})
tst_duplicate_generate == sieve_generate_arguments_only
DuplicateOptions == Options((1 :> <<Number>>) @@ (2 :> <<String>>) @@ (3 :> <<String>>) @@ (4 :> <<>>) @@ (5 :> <<String>>))
tst_duplicate_operation_dump    == Reads(<<DuplicateOptions>>)
tst_duplicate_operation_execute == Reads(<<DuplicateOptions>>)
tst_duplicate == Command(tst_duplicate_registered, Exactly(<<>>), tst_duplicate_generate,
                         tst_duplicate_operation_dump, tst_duplicate_operation_execute)

\* editheader.  "deleteheader" without a value pattern drops the match type and the
\* comparator, and omits its last operand.
cmd_addheader_registered        == Register(1, {Plain("last", KeepFlag, <<>>)})
cmd_addheader_validate          == Exactly(<<AString, AString>>)
cmd_addheader_generate          == sieve_generate_arguments_only
cmd_addheader_operation_dump    == Reads(<<Options(1 :> <<>>), String, String>>)
cmd_addheader_operation_execute == Reads(<<Options(1 :> <<>>), String, String>>)
addheader_command == Command(cmd_addheader_registered, cmd_addheader_validate, cmd_addheader_generate,
                             cmd_addheader_operation_dump, cmd_addheader_operation_execute)

cmd_deleteheader_validate_index_tag == KeepParam(ANumber)
cmd_deleteheader_validate_last_tag  == Needs(KeepFlag, "index")
cmd_deleteheader_registered ==
  MatchTags \cup Register(3, {Plain("index", cmd_deleteheader_validate_index_tag, <<"?">>)})
            \cup Register(4, {Plain("last", cmd_deleteheader_validate_last_tag, <<>>)})
cmd_deleteheader_validate  == Signature(-1, {<<AStringList>>, <<AStringList, AStringList>>})
DeleteheaderUnpadded       == sieve_generate_arguments_only
cmd_deleteheader_generate  == Padded(sieve_generate_arguments_only, "last", 2)
DeleteOptions == MatchOptions((3 :> <<Number>>) @@ (4 :> <<>>))
cmd_deleteheader_operation_dump    == Reads(<<DeleteOptions, String, sieve_opr_stringlist_read_ex>>)
cmd_deleteheader_operation_execute == Reads(<<DeleteOptions, String, sieve_opr_stringlist_read_ex>>)
deleteheader_command == Command(cmd_deleteheader_registered, cmd_deleteheader_validate, cmd_deleteheader_generate,
                                cmd_deleteheader_operation_dump, cmd_deleteheader_operation_execute)

\* enotify.  The importance is a string in the script and a number in the binary.
cmd_notify_validate_string_tag     == KeepParam(AString)
cmd_notify_validate_stringlist_tag == KeepParam(AStringList)
cmd_notify_validate_importance_tag == KeepParam(AString)
cmd_notify_registered ==
  Register(1, {Plain("from", cmd_notify_validate_string_tag, <<"?">>)}) \cup
  Register(2, {Plain("options", cmd_notify_validate_stringlist_tag, <<"?">>)}) \cup
  Register(3, {Plain("message", cmd_notify_validate_string_tag, <<"?">>)}) \cup
  Register(4, {Plain("importance", cmd_notify_validate_importance_tag, <<"number">>)})
cmd_notify_validate == Exactly(<<AString>>)
cmd_notify_generate == sieve_generate_arguments_only
NotifyOptions == (1 :> <<String>>) @@ (2 :> <<List>>) @@ (3 :> <<String>>) @@ (4 :> <<Number>>)
cmd_notify_operation_dump    == Reads(<<ActionOptions(NotifyOptions), String>>)
cmd_notify_operation_execute == Reads(<<ActionOptions(NotifyOptions), String>>)
notify_command == Command(cmd_notify_registered, cmd_notify_validate, cmd_notify_generate,
                          cmd_notify_operation_dump, cmd_notify_operation_execute)

tst_notifymc_registered        == MatchTags
tst_notifymc_validate          == Exactly(<<AString, AString, AStringList>>)
tst_notifymc_generate          == sieve_generate_arguments_only
tst_notifymc_operation_dump    == Reads(<<MatchOptions(<<>>), String, String, List>>)
tst_notifymc_operation_execute == Reads(<<MatchOptions(<<>>), String, String, List>>)
notify_method_capability_test == Command(tst_notifymc_registered, tst_notifymc_validate, tst_notifymc_generate,
                                         tst_notifymc_operation_dump, tst_notifymc_operation_execute)

tst_vnotifym_validate          == Exactly(<<AStringList>>)
tst_vnotifym_generate          == sieve_generate_arguments_only
tst_vnotifym_operation_dump    == Reads(<<List>>)
tst_vnotifym_operation_execute == Reads(<<List>>)
valid_notify_method_test == Command({}, tst_vnotifym_validate, tst_vnotifym_generate,
                                    tst_vnotifym_operation_dump, tst_vnotifym_operation_execute)

\* environment, extlists, ihave
tst_environment_registered        == MatchTags
tst_environment_validate          == Exactly(<<AString, AStringList>>)
tst_environment_generate          == sieve_generate_arguments_only
tst_environment_operation_dump    == Reads(<<MatchOptions(<<>>), String, List>>)
tst_environment_operation_execute == Reads(<<MatchOptions(<<>>), String, List>>)
tst_environment == Command(tst_environment_registered, tst_environment_validate, tst_environment_generate,
                           tst_environment_operation_dump, tst_environment_operation_execute)

tst_vextlist_validate          == Exactly(<<AStringList>>)
tst_vextlist_generate          == sieve_generate_arguments_only
tst_vextlist_operation_dump    == Reads(<<List>>)
tst_vextlist_operation_execute == Reads(<<List>>)
valid_ext_list_test == Command({}, tst_vextlist_validate, tst_vextlist_generate,
                               tst_vextlist_operation_dump, tst_vextlist_operation_execute)

tst_ihave_validate          == Exactly(<<AStringList>>)
tst_ihave_generate          == sieve_generate_arguments_only
tst_ihave_operation_dump    == Reads(<<List>>)
tst_ihave_operation_execute == Reads(<<List>>)
ihave_test == Command({}, tst_ihave_validate, tst_ihave_generate, tst_ihave_operation_dump, tst_ihave_operation_execute)

cmd_error_validate          == Exactly(<<AString>>)
cmd_error_generate          == sieve_generate_arguments_only
cmd_error_operation_dump    == Reads(<<String>>)
cmd_error_operation_execute == Reads(<<String>>)
error_command == Command({}, cmd_error_validate, cmd_error_generate, cmd_error_operation_dump, cmd_error_operation_execute)

\* imap4flags.  The first of two arguments is the variable, omitted when there is only one.
ext_imap4flags_command_validate == [Signature(-1, {<<AStringList>>, <<AString, AStringList>>}) EXCEPT !.variable = 1]
cmd_flag_generate          == ByHand(Padded(sieve_generate_arguments_only, "first", 2))
cmd_flag_operation_dump    == Reads(<<sieve_variable_operand_read_ex, List>>)
cmd_flag_operation_execute == Reads(<<sieve_variable_operand_read_ex, List>>)
cmd_setflag == Command({}, ext_imap4flags_command_validate, cmd_flag_generate,
                       cmd_flag_operation_dump, cmd_flag_operation_execute)

tst_hasflag_registered        == MatchTags
tst_hasflag_validate          == [Signature(-1, {<<AStringList>>, <<AStringList, AStringList>>}) EXCEPT !.option = 3]
tst_hasflag_generate          == sieve_generate_arguments_only
tst_hasflag_operation_dump    == Reads(<<MatchOptions(3 :> <<List>>), List>>)
tst_hasflag_operation_execute == Reads(<<MatchOptions(3 :> <<List>>), List>>)
tst_hasflag == Command(tst_hasflag_registered, tst_hasflag_validate, tst_hasflag_generate,
                       tst_hasflag_operation_dump, tst_hasflag_operation_execute)

\* include.  The script's name becomes its index in the binary; tags become a byte of
\* flags, which the interpreter reads as a number: below 128 the two are one byte alike.
cmd_include_validate_location_tag == Group(Rule({}, "none"), "location")
cmd_include_validate_boolean_tag  == Rule({}, "none")
cmd_include_registered == Register(0, {Plain("personal", cmd_include_validate_location_tag, <<>>),
  Plain("global", cmd_include_validate_location_tag, <<>>), Plain("once", cmd_include_validate_boolean_tag, <<>>)})
cmd_include_validate == Exactly(<<AString>>)
cmd_include_generate == [Generation(<<"unsigned", "byte">>, <<>>) EXCEPT !.by = "none"]
opc_include_dump     == Reads(<<raw("unsigned"), raw("byte")>>)
opc_include_execute  == Reads(<<raw("unsigned"), raw("byte")>>)
cmd_include == Command(cmd_include_registered, cmd_include_validate, cmd_include_generate, opc_include_dump, opc_include_execute)

cmd_global_validate == Exactly(<<AStringList>>)
cmd_global_generate == [Generation(<<"count", "indices">>, <<>>) EXCEPT !.by = "none"]
opc_global_dump     == Reads(<<raw("count"), raw("indices")>>)
opc_global_execute  == Reads(<<raw("count"), raw("indices")>>)
cmd_global == Command({}, cmd_global_validate, cmd_global_generate, opc_global_dump, opc_global_execute)

\* mailbox, metadata, special-use
tst_mailboxexists_validate          == Exactly(<<AStringList>>)
tst_mailboxexists_generate          == sieve_generate_arguments_only
tst_mailboxexists_operation_dump    == Reads(<<List>>)
tst_mailboxexists_operation_execute == Reads(<<List>>)
mailboxexists_test == Command({}, tst_mailboxexists_validate, tst_mailboxexists_generate,
                              tst_mailboxexists_operation_dump, tst_mailboxexists_operation_execute)

MailboxFirst(mailbox, rest)  == IF mailbox THEN <<String>> \o rest ELSE rest
tst_metadata_registered        == MatchTags
tst_metadata_validate(mailbox) == Exactly(IF mailbox THEN <<AString, AString, AStringList>> ELSE <<AString, AStringList>>)
tst_metadata_generate          == sieve_generate_arguments_only
tst_metadata_operation_dump(mailbox)    == Reads(<<MatchOptions(<<>>)>> \o MailboxFirst(mailbox, <<String, List>>))
tst_metadata_operation_execute(mailbox) == Reads(<<MatchOptions(<<>>)>> \o MailboxFirst(mailbox, <<String, List>>))
metadata_test(mailbox) == Command(tst_metadata_registered, tst_metadata_validate(mailbox), tst_metadata_generate,
                                  tst_metadata_operation_dump(mailbox), tst_metadata_operation_execute(mailbox))

tst_metadataexists_validate(mailbox) == Exactly(IF mailbox THEN <<AString, AStringList>> ELSE <<AStringList>>)
tst_metadataexists_generate          == sieve_generate_arguments_only
tst_metadataexists_operation_dump(mailbox)    == Reads(MailboxFirst(mailbox, <<List>>))
tst_metadataexists_operation_execute(mailbox) == Reads(MailboxFirst(mailbox, <<List>>))
metadataexists_test(mailbox) == Command({}, tst_metadataexists_validate(mailbox), tst_metadataexists_generate,
                                        tst_metadataexists_operation_dump(mailbox), tst_metadataexists_operation_execute(mailbox))

tst_specialuse_exists_validate          == Signature(-1, {<<AStringList>>, <<AString, AStringList>>})
tst_specialuse_exists_generate          == ByHand(Padded(sieve_generate_arguments_only, "first", 2))
tst_specialuse_exists_operation_dump    == Reads(<<sieve_opr_string_read_ex, List>>)
tst_specialuse_exists_operation_execute == Reads(<<sieve_opr_string_read_ex, List>>)
specialuse_exists_test == Command({}, tst_specialuse_exists_validate, tst_specialuse_exists_generate,
                                  tst_specialuse_exists_operation_dump, tst_specialuse_exists_operation_execute)

\* spamtest and virustest
tst_spamtest_validate_percent_tag     == KeepFlag
tst_spamvirustest_registered(percent) == MatchTags \cup
  IF percent THEN Register(3, {Plain("percent", tst_spamtest_validate_percent_tag, <<>>)}) ELSE {}
tst_spamvirustest_validate          == Exactly(<<AString>>)
tst_spamvirustest_generate          == sieve_generate_arguments_only
tst_spamvirustest_operation_dump    == Reads(<<MatchOptions(3 :> <<>>), String>>)
tst_spamvirustest_operation_execute == Reads(<<MatchOptions(3 :> <<>>), List>>)
spamtest_test(percent) == Command(tst_spamvirustest_registered(percent), tst_spamvirustest_validate,
                        tst_spamvirustest_generate, tst_spamvirustest_operation_dump, tst_spamvirustest_operation_execute)

\* vacation.  The handle, given or made up from the arguments, follows the reason.
cmd_vacation_validate_number_tag     == KeepParam(ANumber)
cmd_vacation_validate_string_tag     == KeepParam(AString)
cmd_vacation_validate_handle         == Rule(AString, "none")
cmd_vacation_validate_stringlist_tag == KeepParam(AStringList)
cmd_vacation_validate_mime_tag       == KeepFlag
cmd_vacation_registered ==
  Register(1, {Plain("days", cmd_vacation_validate_number_tag, <<"?">>), Plain("seconds", cmd_vacation_validate_number_tag, <<"?">>)})
  \cup Register(2, {Plain("subject", cmd_vacation_validate_string_tag, <<"?">>)})
  \cup Register(3, {Plain("from", cmd_vacation_validate_string_tag, <<"?">>)})
  \cup Register(4, {Plain("addresses", cmd_vacation_validate_stringlist_tag, <<"?">>)})
  \cup Register(5, {Plain("mime", cmd_vacation_validate_mime_tag, <<>>)})
  \cup Register(0, {Plain("handle", cmd_vacation_validate_handle, <<>>)})
cmd_vacation_validate == Exactly(<<AString>>)
cmd_vacation_generate == Generation(<<>>, <<"string">>)
VacationOptions == (1 :> <<Number>>) @@ (2 :> <<String>>) @@ (3 :> <<String>>) @@ (4 :> <<List>>) @@ (5 :> <<>>)
ext_vacation_operation_dump    == Reads(<<ActionOptions(VacationOptions), String, String>>)
ext_vacation_operation_execute == Reads(<<ActionOptions(VacationOptions), String, String>>)
vacation_command == Command(cmd_vacation_registered, cmd_vacation_validate, cmd_vacation_generate,
                            ext_vacation_operation_dump, ext_vacation_operation_execute)

\* variables.  Modifiers leave the argument list and follow the operands; two of equal
\* precedence conflict.
sieve_variables_modifiers_validate == [Group(Rule({}, "none"), "") EXCEPT !.multiple = TRUE]
modifier_tag(name, precedence)     == Tag(name, "modifier", Group(sieve_variables_modifiers_validate, precedence), <<>>)
sieve_variables_modifiers_link_tag == Register(0, {modifier_tag("lower", "case"), modifier_tag("upper", "case"), modifier_tag("length", "length")})
sieve_variables_modifiers_generate == <<"modifiers">>
cmd_set_registered        == sieve_variables_modifiers_link_tag
cmd_set_validate          == [Exactly(<<AString, AString>>) EXCEPT !.variable = 1]
cmd_set_generate          == Generation(<<>>, sieve_variables_modifiers_generate)
cmd_set_operation_dump    == Reads(<<String, String>> \o sieve_variables_modifiers_code_dump)
cmd_set_operation_execute == Reads(<<sieve_variable_operand_read, String>> \o sieve_variables_modifiers_code_read)
cmd_set == Command(cmd_set_registered, cmd_set_validate, cmd_set_generate, cmd_set_operation_dump, cmd_set_operation_execute)

tst_string_registered        == MatchTags
tst_string_validate          == Exactly(<<AStringList, AStringList>>)
tst_string_generate          == sieve_generate_arguments_only
tst_string_operation_dump    == Reads(<<MatchOptions(<<>>), List, List>>)
tst_string_operation_execute == Reads(<<MatchOptions(<<>>), List, List>>)
tst_string == Command(tst_string_registered, tst_string_validate, tst_string_generate,
                      tst_string_operation_dump, tst_string_operation_execute)

cmd_extracttext_validate_first_tag == KeepParam(ANumber)
cmd_extracttext_registered == Register(1, {Plain("first", cmd_extracttext_validate_first_tag, <<"?">>)})
                                \cup sieve_variables_modifiers_link_tag
cmd_extracttext_validate == [Exactly(<<AString>>) EXCEPT !.variable = 1]
cmd_extracttext_generate == Generation(<<>>, sieve_variables_modifiers_generate)
cmd_extracttext_operation_dump    == Reads(<<Options(1 :> <<Number>>), String>> \o sieve_variables_modifiers_code_dump)
cmd_extracttext_operation_execute == Reads(<<Options(1 :> <<Number>>), sieve_variable_operand_read>> \o sieve_variables_modifiers_code_read)
cmd_extracttext == Command(cmd_extracttext_registered, cmd_extracttext_validate, cmd_extracttext_generate,
                           cmd_extracttext_operation_dump, cmd_extracttext_operation_execute)

\* vnd.dovecot.debug and vnd.dovecot.report
cmd_debug_log_validate          == Exactly(<<AString>>)
cmd_debug_log_generate          == sieve_generate_arguments_only
cmd_debug_log_operation_dump    == Reads(<<String>>)
cmd_debug_log_operation_execute == Reads(<<String>>)
debug_log_command == Command({}, cmd_debug_log_validate, cmd_debug_log_generate,
                             cmd_debug_log_operation_dump, cmd_debug_log_operation_execute)

cmd_report_registered        == Register(1, {Plain("headers_only", KeepFlag, <<>>)})
cmd_report_validate          == Exactly(<<AString, AString, AString>>)
cmd_report_generate          == sieve_generate_arguments_only
cmd_report_operation_dump    == Reads(<<ActionOptions(1 :> <<>>), String, String, String>>)
cmd_report_operation_execute == Reads(<<ActionOptions(1 :> <<>>), String, String, String>>)
cmd_report == Command(cmd_report_registered, cmd_report_validate, cmd_report_generate,
                      cmd_report_operation_dump, cmd_report_operation_execute)

\* extprograms.  At most two positional arguments; a missing list of arguments is omitted.
sieve_extprogram_command_validate == [Signature(-1, {<<AString>>, <<AString, AStringList>>}) EXCEPT !.strict = TRUE]
sieve_extprogram_command_read_operands == <<String, sieve_opr_stringlist_read_ex>>
cmd_pipe_registered        == Register(1, {Plain("try", KeepFlag, <<>>)}) \cup Register(-1, {copy_tag})
cmd_pipe_generate          == Padded(sieve_generate_arguments_only, "last", 2)
cmd_pipe_operation_dump    == Reads(<<ActionOptions(1 :> <<>>)>> \o sieve_extprogram_command_read_operands)
cmd_pipe_operation_execute == Reads(<<ActionOptions(1 :> <<>>)>> \o sieve_extprogram_command_read_operands)
sieve_cmd_pipe == Command(cmd_pipe_registered, sieve_extprogram_command_validate, cmd_pipe_generate,
                          cmd_pipe_operation_dump, cmd_pipe_operation_execute)

cmd_filter_generate          == Padded(Generation(<<"byte">>, <<>>), "last", 2)
cmd_filter_operation_dump    == Reads(<<raw("byte"), ActionOptions(<<>>)>> \o sieve_extprogram_command_read_operands)
cmd_filter_operation_execute == Reads(<<raw("byte"), ActionOptions(<<>>)>> \o sieve_extprogram_command_read_operands)
sieve_cmd_filter == Command({}, sieve_extprogram_command_validate, cmd_filter_generate,
                            cmd_filter_operation_dump, cmd_filter_operation_execute)

cmd_execute_validate_input_tag(takes) == Group(Rule(takes, "tag"), "input")
cmd_execute_validate_output_tag       == KeepParam(AString)
cmd_execute_generate_input_tag(takes) == IF takes = {} THEN <<"omitted">> ELSE <<"?">>
cmd_execute_registered ==
  Register(1, {Plain("input", cmd_execute_validate_input_tag(AString), cmd_execute_generate_input_tag(AString)),
               Plain("pipe", cmd_execute_validate_input_tag({}), cmd_execute_generate_input_tag({}))})
  \cup Register(2, {Plain("output", cmd_execute_validate_output_tag, <<"variable">>)})
cmd_execute_generate == Padded(Generation(<<"byte">>, <<>>), "last", 2)
ExecuteOptions == (1 :> <<sieve_opr_string_read_ex>>) @@ (2 :> <<sieve_variable_operand_read>>)
cmd_execute_operation_dump    == Reads(<<raw("byte"), ActionOptions(ExecuteOptions)>> \o sieve_extprogram_command_read_operands)
cmd_execute_operation_execute == Reads(<<raw("byte"), ActionOptions(ExecuteOptions)>> \o sieve_extprogram_command_read_operands)
sieve_cmd_execute == Command(cmd_execute_registered, sieve_extprogram_command_validate, cmd_execute_generate,
                             cmd_execute_operation_dump, cmd_execute_operation_execute)

ExtensionCommands ==
  ("body" :> body_test) @@ ("date" :> date_test) @@ ("currentdate" :> currentdate_test) @@
  ("duplicate" :> tst_duplicate) @@ ("addheader" :> addheader_command) @@ ("deleteheader" :> deleteheader_command) @@
  ("notify" :> notify_command) @@ ("notify_method_capability" :> notify_method_capability_test) @@
  ("valid_notify_method" :> valid_notify_method_test) @@ ("environment" :> tst_environment) @@
  ("valid_ext_list" :> valid_ext_list_test) @@ ("ihave" :> ihave_test) @@ ("error" :> error_command) @@
  ("setflag" :> cmd_setflag) @@ ("hasflag" :> tst_hasflag) @@ ("include" :> cmd_include) @@ ("global" :> cmd_global) @@
  ("mailboxexists" :> mailboxexists_test) @@ ("metadata" :> metadata_test(TRUE)) @@
  ("servermetadata" :> metadata_test(FALSE)) @@ ("metadataexists" :> metadataexists_test(TRUE)) @@
  ("servermetadataexists" :> metadataexists_test(FALSE)) @@ ("specialuse_exists" :> specialuse_exists_test) @@
  ("spamtest" :> spamtest_test(TRUE)) @@ ("virustest" :> spamtest_test(FALSE)) @@ ("vacation" :> vacation_command) @@
  ("set" :> cmd_set) @@ ("string" :> tst_string) @@ ("extracttext" :> cmd_extracttext) @@
  ("debug_log" :> debug_log_command) @@ ("report" :> cmd_report) @@ ("pipe" :> sieve_cmd_pipe) @@
  ("filter" :> sieve_cmd_filter) @@ ("execute" :> sieve_cmd_execute)
=============================================================================
