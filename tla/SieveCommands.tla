---------------------------- MODULE SieveCommands ----------------------------
(***************************************************************************)
(* The commands and tests of the base language with the tags that          *)
(* extensions attach to them: what each one registers, demands of its      *)
(* arguments, writes into the binary, and reads from it again.  Names are  *)
(* those of the C functions and definitions.                               *)
(***************************************************************************)
EXTENDS SieveOperands

\* Comparators, match types and address parts (sieve-comparators.c, sieve-match-types.c,
\* sieve-address-parts.c).  ":count" and ":value" take a relation.
tag_comparator_validate   == Rule(AString, "tag")
tag_comparator_generate   == <<"comparator">>
comparator_tag            == Plain("comparator", tag_comparator_validate, tag_comparator_generate)
tag_match_type_validate   == Rule({}, "tag")
mcht_relational_validate  == Rule(AString, "tag")
tag_match_type_generate   == <<"match-type">>
match_type_tag(name, rule) == Tag(name, "match-type", rule, tag_match_type_generate)
tag_address_part_validate == Rule({}, "tag")
tag_address_part_generate == <<"address-part">>
address_part_tag(name)    == Tag(name, "address-part", tag_address_part_validate, tag_address_part_generate)

sieve_comparators_link_tag(id)   == Register(id, {comparator_tag})
sieve_match_types_link_tags(id)  ==
  Register(id, {match_type_tag("is", tag_match_type_validate), match_type_tag("value", mcht_relational_validate)})
sieve_address_parts_link_tags(id) == Register(id, {address_part_tag("domain")})
MatchTags == sieve_comparators_link_tag(1) \cup sieve_match_types_link_tags(2)

\* Side effects of store actions: "copy", "mailbox", "special-use", "imap4flags".
tag_copy_validate           == Rule({}, "tag")
tag_copy_generate           == <<"se:copy">>
copy_tag                    == Plain("copy", tag_copy_validate, tag_copy_generate)
tag_mailbox_create_validate == Rule({}, "tag")
tag_mailbox_create_generate == <<"se:create">>
mailbox_create_tag          == Plain("create", tag_mailbox_create_validate, tag_mailbox_create_generate)
tag_specialuse_validate     == Rule(AString, "tag")
tag_specialuse_generate     == <<"se:specialuse", "?">>
specialuse_tag              == Plain("specialuse", tag_specialuse_validate, tag_specialuse_generate)
tag_flags_validate          == Rule(AStringList, "tag")
tag_flags_generate          == <<"se:flags", "?">>
flags_tag                   == Plain("flags", tag_flags_validate, tag_flags_generate)
\* Without :flags an implicit tag stores the flags of the internal variable.
tag_flags_validate_persistent == Argument("flags", -1, <<"se:flags", "omitted">>, {})

\* Message overrides: "index" and "mime".  :last, :anychild and the options of :mime only
\* change the tag they belong to; :param rewrites its last operand.
tag_index_validate       == Rule(ANumber, "tag")
tag_index_generate       == <<"mo:index", "integer", "byte">>
index_tag                == Plain("index", tag_index_validate, tag_index_generate)
tag_last_validate        == Needs(Rule({}, "none"), "index")
last_tag                 == Plain("last", tag_last_validate, <<>>)
tag_mime_validate        == Rule({}, "tag")
tag_mime_generate        == <<"mo:mime", "byte", "mimeopt">>
mime_tag                 == Plain("mime", tag_mime_validate, tag_mime_generate)
mime_anychild_tag        == Plain("anychild", Needs(Rule({}, "none"), "mime"), <<>>)
tag_mime_option_validate(takes) == Group(Needs(Rule(takes, "none"), "mime"), "mimeopt")
mime_type_tag            == Plain("type", tag_mime_option_validate({}), <<>>)
mime_param_tag           == Plain("param", tag_mime_option_validate(AStringList), <<"mimeopt:param", "stringlist">>)
ext_index_validator_load == Register(-2, {index_tag}) \cup Register(0, {last_tag})
ext_mime_validator_load  == Register(-2, {mime_tag}) \cup Register(0, {mime_anychild_tag})
ext_mime_header_load     == ext_mime_validator_load \cup Register(0, {mime_type_tag, mime_param_tag})

\* "redirect" refuses the :list tag of "extlists".
tag_redirect_list_validate == [Rule({}, "tag") EXCEPT !.refuses = TRUE]
redirect_list_tag          == Plain("list", tag_redirect_list_validate, <<>>)

\* Actions.
cmd_keep_generate          == sieve_generate_arguments_only
cmd_keep_operation_dump    == Reads(<<Options(sieve_action_opr_optional_dump)>>)
cmd_keep_operation_execute == Reads(<<Options(sieve_action_opr_optional_read)>>)
cmd_keep == Command(Register(-1, {flags_tag}), Exactly(<<>>), cmd_keep_generate,
                    cmd_keep_operation_dump, cmd_keep_operation_execute)

cmd_discard_generate          == sieve_generate_arguments_only
cmd_discard_operation_dump    == Reads(<<Options(sieve_action_opr_optional_dump)>>)
cmd_discard_operation_execute == Reads(<<>>)
cmd_discard == Command({}, Exactly(<<>>), cmd_discard_generate,
                       cmd_discard_operation_dump, cmd_discard_operation_execute)

cmd_redirect_validate          == Exactly(<<AString>>)
cmd_redirect_generate          == sieve_generate_arguments_only
cmd_redirect_operation_dump    == Reads(<<Options(sieve_action_opr_optional_dump), sieve_opr_string_read>>)
cmd_redirect_operation_execute == Reads(<<Options(sieve_action_opr_optional_read), sieve_opr_string_read>>)
cmd_redirect == Command(Register(-1, {copy_tag}) \cup Register(0, {redirect_list_tag}), cmd_redirect_validate,
                        cmd_redirect_generate, cmd_redirect_operation_dump, cmd_redirect_operation_execute)

cmd_fileinto_validate          == Exactly(<<AString>>)
cmd_fileinto_generate          == sieve_generate_arguments_only
ext_fileinto_operation_dump    == Reads(<<Options(sieve_action_opr_optional_dump), sieve_opr_string_read>>)
ext_fileinto_operation_execute == Reads(<<Options(sieve_action_opr_optional_read), sieve_opr_string_read>>)
fileinto_command == Command(Register(-1, {copy_tag, mailbox_create_tag, specialuse_tag, flags_tag}), cmd_fileinto_validate,
                            cmd_fileinto_generate, ext_fileinto_operation_dump, ext_fileinto_operation_execute)

cmd_reject_validate          == Exactly(<<AString>>)
cmd_reject_generate          == sieve_generate_arguments_only
ext_reject_operation_dump    == Reads(<<Options(sieve_action_opr_optional_dump), sieve_opr_string_read>>)
ext_reject_operation_execute == Reads(<<Options(sieve_action_opr_optional_read), sieve_opr_string_read>>)
reject_command == Command({}, cmd_reject_validate, cmd_reject_generate,
                          ext_reject_operation_dump, ext_reject_operation_execute)

\* Tests.
tst_address_registered        == MatchTags \cup sieve_address_parts_link_tags(3)
                                   \cup ext_index_validator_load \cup ext_mime_validator_load
tst_address_validate          == Exactly(<<AStringList, AStringList>>)
tst_address_generate          == sieve_generate_arguments_only
tst_address_operation_dump    == Reads(<<Options(sieve_message_opr_optional_dump(sieve_addrmatch_opr_optional_dump)),
                                         sieve_opr_stringlist_read, sieve_opr_stringlist_read>>)
tst_address_operation_execute == Reads(<<Options(sieve_message_opr_optional_read(sieve_addrmatch_opr_optional_read)),
                                         sieve_opr_stringlist_read, sieve_opr_stringlist_read>>)
tst_address == Command(tst_address_registered, tst_address_validate, tst_address_generate,
                       tst_address_operation_dump, tst_address_operation_execute)

tst_header_registered        == MatchTags \cup ext_index_validator_load \cup ext_mime_header_load
tst_header_validate          == Exactly(<<AStringList, AStringList>>)
tst_header_generate          == sieve_generate_arguments_only
tst_header_operation_dump    == Reads(<<Options(sieve_message_opr_optional_dump(sieve_match_opr_optional_dump)),
                                        sieve_opr_stringlist_read, sieve_opr_stringlist_read>>)
tst_header_operation_execute == Reads(<<Options(sieve_message_opr_optional_read(sieve_match_opr_optional_read)),
                                        sieve_opr_stringlist_read, sieve_opr_stringlist_read>>)
tst_header == Command(tst_header_registered, tst_header_validate, tst_header_generate,
                      tst_header_operation_dump, tst_header_operation_execute)

tst_exists_validate          == Exactly(<<AStringList>>)
tst_exists_generate          == sieve_generate_arguments_only
tst_exists_operation_dump    == Reads(<<Options(sieve_message_opr_optional_dump(<<>>)), sieve_opr_stringlist_read>>)
tst_exists_operation_execute == Reads(<<Options(sieve_message_opr_optional_read(<<>>)), sieve_opr_stringlist_read>>)
tst_exists == Command(ext_mime_validator_load, tst_exists_validate, tst_exists_generate,
                      tst_exists_operation_dump, tst_exists_operation_execute)

\* "size" chooses its operation by its tag, and demands one.
tst_size_validate_over_tag  == Group(Rule({}, "none"), "size")
tst_size_validate_under_tag == Group(Rule({}, "none"), "size")
size_over_tag               == Plain("over", tst_size_validate_over_tag, <<>>)
size_under_tag              == Plain("under", tst_size_validate_under_tag, <<>>)
tst_size_registered         == Register(0, {size_over_tag, size_under_tag})
tst_size_validate           == [Exactly(<<ANumber>>) EXCEPT !.demands = "size"]
tst_size_generate           == sieve_generate_arguments_only
tst_size_operation_dump     == Reads(<<sieve_opr_number_read>>)
tst_size_operation_execute  == Reads(<<sieve_opr_number_read>>)
tst_size == Command(tst_size_registered, tst_size_validate, tst_size_generate,
                    tst_size_operation_dump, tst_size_operation_execute)

tst_envelope_registered        == MatchTags \cup sieve_address_parts_link_tags(3)
tst_envelope_validate          == Exactly(<<AStringList, AStringList>>)
tst_envelope_generate          == sieve_generate_arguments_only
ext_envelope_operation_dump    == Reads(<<Options(sieve_addrmatch_opr_optional_dump),
                                          sieve_opr_stringlist_read, sieve_opr_stringlist_read>>)
ext_envelope_operation_execute == Reads(<<Options(sieve_addrmatch_opr_optional_read),
                                          sieve_opr_stringlist_read, sieve_opr_stringlist_read>>)
envelope_test == Command(tst_envelope_registered, tst_envelope_validate, tst_envelope_generate,
                         ext_envelope_operation_dump, ext_envelope_operation_execute)

BaseCommands ==
  ("keep" :> cmd_keep) @@ ("discard" :> cmd_discard) @@ ("redirect" :> cmd_redirect) @@
  ("fileinto" :> fileinto_command) @@ ("reject" :> reject_command) @@ ("address" :> tst_address) @@
  ("header" :> tst_header) @@ ("exists" :> tst_exists) @@ ("size" :> tst_size) @@ ("envelope" :> envelope_test)
=============================================================================
