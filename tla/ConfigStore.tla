------------------------------ MODULE ConfigStore -------------------------------
(* config.ini and the ts processes that edit it: "config init" and "profile     *)
(* create", "set", "unset", "delete" and "use".  A command loads the whole file,*)
(* changes its copy, and saves the copy under a temporary name that is renamed  *)
(* over the file.  Nothing locks the file: the last of two edits wins.          *)

CONSTANTS
    Editors,       \* the ts processes that edit the file
    Names,         \* the profile names commands are given
    MultiLine,     \* ... those that hold a line break
    Trimmed,       \* util::trim of each name: a name, or Nameless
    Nameless,      \* the empty name
    MockLocal, PluginLocal,   \* the names of the two default profiles
    TempNames      \* the names mkstemp chooses from

ASSUME ConfigAssumption ==
    /\ {MockLocal, PluginLocal} \subseteq Names
    /\ MultiLine \subseteq Names
    /\ Nameless \notin Names
    /\ "none" \notin TempNames
    /\ Trimmed \in [Names -> Names \cup {Nameless}]

VARIABLES
    file,          \* config.ini
    temp,          \* the temporary files beside it
    editor         \* the edit each process is at

configVars == <<file, temp, editor>>

\* Of the fields of the profiles the model keeps whether a required one is
\* unusable (a blank host, a backend of no kind) and whether one has several lines.
Configs == [active : Names \cup {Nameless}, profiles : SUBSET Names,
            unusable : BOOLEAN, multiLine : BOOLEAN]

default_config == [active |-> PluginLocal, profiles |-> {MockLocal, PluginLocal},
                   unusable |-> FALSE, multiLine |-> FALSE]

\* A file that was written by hand may hold anything; "part" is a file that is
\* not written to its end.
NoFile == [made |-> "none", config |-> default_config]
Part == [made |-> "part", config |-> default_config]
Written(config) == [made |-> "ts", config |-> config]
Garbage == [made |-> "garbage", config |-> default_config]

Resting == [at |-> "idle", config |-> default_config, temp |-> "none"]

ConfigTypeOK ==
    /\ file \in [made : {"none", "part", "garbage", "hand", "ts"}, config : Configs]
    /\ temp \in [TempNames -> [made : {"none", "part", "ts"}, config : Configs]]
    /\ editor \in [Editors -> [at : {"idle", "temp", "write", "rename"}, config : Configs,
                              temp : TempNames \cup {"none"}]]
    /\ \A e \in Editors : editor[e].at \in {"write", "rename"} => editor[e].temp # "none"

ConfigInit ==
    /\ \/ file \in {NoFile, Garbage}
       \/ \E written \in SUBSET {MockLocal, PluginLocal} :
             file = [made |-> "hand", config |-> [default_config EXCEPT !.profiles = written]]
    /\ temp = [t \in TempNames |-> NoFile]
    /\ editor = [e \in Editors |-> Resting]

--------------------------------------------------------------------------------
(* Reading                                                                     *)

\* The file has the syntax load reads: every line a comment, a section or a
\* key=value.
Parses(f) ==
    /\ f.made \in {"hand", "ts"}
    /\ ~f.config.multiLine
    /\ f.config.profiles \cap MultiLine = {}

\* What load reads: the value of active_profile is trimmed, a section's name is
\* not, and a file without a section stands for the default.
Parsed(f) ==
    IF f.config.profiles = {} THEN default_config
    ELSE [f.config EXCEPT !.active = IF @ \in Names THEN Trimmed[@] ELSE @]

\* validate_config, which save asks too, apart from the active profile ...
Usable(config) ==
    /\ \A n \in config.profiles : Trimmed[n] # Nameless
    /\ ~config.unusable

\* ... and with it.
Valid(config) == Usable(config) /\ config.active \in config.profiles

\* load_or_default gives c; load_config_without_active_resolution would also
\* give a config that names a missing profile as the active one.
Strictly(c) ==
    \/ file.made = "none" /\ c = default_config
    \/ Parses(file) /\ c = Parsed(file) /\ Valid(c)

Loosely(c) ==
    \/ file.made = "none" /\ c = default_config
    \/ Parses(file) /\ c = Parsed(file) /\ Usable(c)

--------------------------------------------------------------------------------
(* The edits of a copy c.  One that is refused writes nothing and is left out.  *)

\* The configs a command may read.
Loadable == {default_config, Parsed(file)}

Created(c, n) == Strictly(c) /\ n \notin c.profiles

Deleted(c, n) ==
    /\ Strictly(c)
    /\ n \in c.profiles
    /\ c.profiles # {n}

\* save: validate_config, then a file beside the target.  A config that is not
\* valid is refused and nothing is written.
Saves(e, config) ==
    /\ Valid(config)
    /\ editor' = [editor EXCEPT ![e] = [at |-> "temp", config |-> config, temp |-> "none"]]
    /\ UNCHANGED <<file, temp>>

\* config init: only with --force when there is a file.
Initializes(e, force) ==
    /\ editor[e].at = "idle"
    /\ file.made = "none" \/ force
    /\ Saves(e, default_config)

\* profile create: a copy of a profile of c, of the active one by default.
Creates(e, n, activate) ==
    /\ editor[e].at = "idle"
    /\ \E c \in Loadable :
          /\ Created(c, n)
          /\ Saves(e, [c EXCEPT !.profiles = @ \cup {n},
                                !.active = IF activate THEN n ELSE @])

\* profile set: a value that is usable or not, of one line or of several.
Sets(e, n, unusable, multiLine) ==
    /\ editor[e].at = "idle"
    /\ \E c \in Loadable :
          /\ Loosely(c)
          /\ n \in c.profiles
          /\ Saves(e, [c EXCEPT !.unusable = unusable, !.multiLine = multiLine])

\* profile unset: an optional field becomes empty.
Unsets(e, n) ==
    /\ editor[e].at = "idle"
    /\ \E c \in Loadable : Strictly(c) /\ n \in c.profiles /\ Saves(e, c)

\* profile delete: the active profile only with --activate and another's name.
Deletes(e, n) ==
    /\ editor[e].at = "idle"
    /\ \E c \in Loadable :
          /\ Deleted(c, n)
          /\ n # c.active
          /\ Saves(e, [c EXCEPT !.profiles = @ \ {n}])

DeletesActivating(e, n, other) ==
    /\ editor[e].at = "idle"
    /\ n # other
    /\ \E c \in Loadable :
          /\ Deleted(c, n)
          /\ other \in c.profiles
          /\ Saves(e, [c EXCEPT !.profiles = @ \ {n}, !.active = other])

\* profile use: the way to repair a file whose active profile is missing.
Uses(e, n) ==
    /\ editor[e].at = "idle"
    /\ \E c \in Loadable :
          /\ Loosely(c)
          /\ n \in c.profiles
          /\ Saves(e, [c EXCEPT !.active = n])

--------------------------------------------------------------------------------
(* Saving                                                                      *)

\* Mutant: the temporary file has a fixed name.
OpensFixed(e, t) ==
    /\ editor[e].at = "temp"
    /\ temp' = [temp EXCEPT ![t] = Part]
    /\ editor' = [editor EXCEPT ![e].at = "write", ![e].temp = t]
    /\ UNCHANGED file

\* mkstemp: a name that no file has.
Opens(e, t) ==
    /\ editor[e].at = "temp"
    /\ temp[t].made = "none"
    /\ temp' = [temp EXCEPT ![t] = Part]
    /\ editor' = [editor EXCEPT ![e].at = "write", ![e].temp = t]
    /\ UNCHANGED file

\* All of the text is written, flushed to the disk and the file closed.
Writes(e) ==
    /\ editor[e].at = "write"
    /\ temp' = [temp EXCEPT ![editor[e].temp] = Written(editor[e].config)]
    /\ editor' = [editor EXCEPT ![e].at = "rename"]
    /\ UNCHANGED file

\* The rename, and the command reports its success.
Renames(e) ==
    /\ editor[e].at = "rename"
    /\ file' = temp[editor[e].temp]
    /\ temp' = [temp EXCEPT ![editor[e].temp] = NoFile]
    /\ editor' = [editor EXCEPT ![e] = Resting]

\* A step of save fails: the temporary file, if there is one, is removed.
SaveFails(e) ==
    /\ editor[e].at # "idle"
    /\ temp' = [t \in TempNames |-> IF t = editor[e].temp THEN NoFile ELSE temp[t]]
    /\ editor' = [editor EXCEPT ![e] = Resting]
    /\ UNCHANGED file

\* The process is killed: the temporary file stays, and what it holds no longer
\* matters.
EditorKilled(e) ==
    /\ editor[e].at # "idle"
    /\ temp' = [t \in TempNames |-> IF t = editor[e].temp THEN Part ELSE temp[t]]
    /\ editor' = [editor EXCEPT ![e] = Resting]
    /\ UNCHANGED file

ConfigNext ==
    \E e \in Editors :
       \/ \E force \in BOOLEAN : Initializes(e, force)
       \/ \E n \in Names, activate \in BOOLEAN : Creates(e, n, activate)
       \/ \E n \in Names, unusable, multiLine \in BOOLEAN : Sets(e, n, unusable, multiLine)
       \/ \E n \in Names : Unsets(e, n) \/ Deletes(e, n) \/ Uses(e, n)
       \/ \E n, other \in Names : DeletesActivating(e, n, other)
       \/ \E t \in TempNames : Opens(e, t)
       \/ Writes(e) \/ Renames(e) \/ SaveFails(e) \/ EditorKilled(e)

ConfigSpec == ConfigInit /\ [][ConfigNext]_configVars

--------------------------------------------------------------------------------
(* What the store promises                                                     *)

\* The file has names and values that its format carries: render_config escapes
\* nothing, and load trims the name of the active profile.
Carried(config) ==
    /\ ~config.multiLine
    /\ config.profiles \cap MultiLine = {}
    /\ Trimmed[config.active] = config.active

\* Whatever edits overlap, fail or die, config.ini is never half-written, and a
\* config.ini that a command wrote loads, with an active profile that exists, if
\* its names and values are ones the format carries.
ConfigLoads ==
    /\ file.made # "part"
    /\ file.made = "ts" /\ Carried(file.config) =>
          Parses(file) /\ Valid(Parsed(file))

================================================================================
