--------------------------- MODULE SettingsRules ---------------------------
(***************************************************************************)
(* How run start turns its configuration into the settings a run carries,   *)
(* and how a later launch takes them up.  A configured value is             *)
(* [shape, words]: absent, a string (blank, JSON text or words joined with  *)
(* commas), a list, or something that is no list of words.  A word is       *)
(* "name", "phrase" (not shaped like a tool), "blank" or "nontext".         *)
(***************************************************************************)
EXTENDS Integers, Sequences, FiniteSets

Shapes == {"absent", "blank", "json_text", "joined", "list", "other"}
Words == {"name", "phrase", "blank", "nontext"}

\* _fail: the command exits and no run directory exists.
Refuse == [refused |-> TRUE, words |-> <<>>]
Take(words) == [refused |-> FALSE, words |-> words]

\* _config_words: a list of stripped words, or a refusal.
ConfigWords(raw) ==
    CASE raw.shape = "joined" -> Take(raw.words)
      [] raw.shape = "list" /\ \A i \in DOMAIN raw.words : raw.words[i] # "nontext" -> Take(raw.words)
      [] OTHER -> Refuse

\* A blank read as the empty list.
BlankIsEmpty(raw, packaged, shaped, mayBeEmpty) ==
    IF raw.shape = "blank" THEN Take(<<>>)
    ELSE IF raw.shape = "absent" THEN Take(packaged) ELSE ConfigWords(raw)

\* _config_name_list: shaped, every word must be a tool's name; mayBeEmpty, [] is honoured.
ConfigNameList(raw, packaged, shaped, mayBeEmpty) ==
    LET read == IF raw.shape = "absent" THEN Take(packaged) ELSE ConfigWords(raw)
    IN IF \/ raw.shape = "blank"
          \/ read.refused
          \/ \E i \in DOMAIN read.words : read.words[i] = "blank" \/ (shaped /\ read.words[i] # "name")
          \/ read.words = <<>> /\ ~mayBeEmpty
       THEN Refuse ELSE read

ConfigDenyBash(raw, packaged) == ConfigNameList(raw, packaged, FALSE, TRUE)
ConfigDenyTools(raw, packaged) == ConfigNameList(raw, packaged, TRUE, TRUE)
ConfigTools(raw, packaged) == ConfigNameList(raw, packaged, TRUE, FALSE)

\* _config_gate_command: blank is the packaged command, empty is refused.
ConfigGateCommand(raw, packaged) ==
    LET read == IF raw.shape \in {"absent", "blank"} THEN Take(packaged) ELSE ConfigWords(raw)
    IN IF read.refused \/ read.words = <<>> \/ \E i \in DOMAIN read.words : read.words[i] = "blank"
       THEN Refuse ELSE read

OfferedModes == {"dontAsk", "bypassPermissions"}
ConfigPermissionMode(mode, packaged) ==
    LET value == IF mode = "absent" THEN packaged ELSE mode
    IN [refused |-> value \notin OfferedModes, mode |-> value]

NotifyChoice(choice, packaged) ==
    LET value == IF choice = "absent" THEN packaged ELSE choice
    IN [refused |-> value \notin {"none", "mail"}, choice |-> value]

\* The mail sink needs a host in this process's own configuration.
BuildNotifier(choice, hasHost) == choice = "none" \/ hasHost

\* _configured_credential_file: a path that names no file selects the credential copy.
ConfiguredCredentialFile(path, exists) == IF path # "" /\ exists THEN path ELSE ""

\* _credential_from: a keyfile that is gone is refused, never replaced by the copy.
CredentialFrom(file, exists) ==
    CASE file = "" -> "credential_copy"
      [] file # "" /\ exists -> "keyfile"
      [] OTHER -> "refused"

----------------------------------------------------------------------------
(* One configuration: the values run start reads, with the packaged ones.   *)

ResolveSettings(config, packaged) ==
    LET bash == ConfigDenyBash(config.denyBash, packaged.denyBash)
        closed == ConfigDenyTools(config.denyTools, packaged.denyTools)
        tools == ConfigTools(config.tools, packaged.tools)
        gate == ConfigGateCommand(config.gate, packaged.gate)
        mode == ConfigPermissionMode(config.mode, packaged.mode)
        notify == NotifyChoice(config.notify, packaged.notify)
    IN [refused |-> bash.refused \/ closed.refused \/ tools.refused \/ gate.refused
                    \/ mode.refused \/ notify.refused \/ config.parallel < 1,
        denyBash |-> bash.words, denyTools |-> closed.words, tools |-> tools.words, gate |-> gate.words,
        mode |-> mode.mode, notify |-> notify.choice, parallel |-> config.parallel,
        credential |-> ConfiguredCredentialFile(config.credential, config.credentialExists)]

NoSettings == [refused |-> TRUE]

\* Each launch reading its own configuration.
SettingsAfresh(settings, config, packaged) == ResolveSettings(config, packaged)

\* _settings_of: the run's own block; only a run from before the block reads config again.
SettingsOf(settings, config, packaged) ==
    IF settings # NoSettings THEN settings ELSE ResolveSettings(config, packaged)

\* run start under one configuration, then a relaunch under another: what each wires, or "refused".
Launches(first, later, packaged) ==
    LET start == ResolveSettings(first, packaged)
        again == SettingsOf(start, later, packaged)
        wires(s, config) == BuildNotifier(s.notify, config.hasHost)
                            /\ CredentialFrom(s.credential, config.credentialExists) # "refused"
    IN IF start.refused \/ ~wires(start, first) THEN [started |-> FALSE]
       ELSE [started |-> TRUE, start |-> start, relaunched |-> wires(again, later), again |-> again,
             credential |-> CredentialFrom(again.credential, later.credentialExists)]
=============================================================================
