----------------------------- MODULE Installation -----------------------------
(***************************************************************************)
(* What is installed: scripts/install-release.sh and scripts/uninstall.sh, *)
(* run by the user, and "ts update" (cli/command_router.cpp), which runs   *)
(* the installer with what the receipt of the last run says.  A run may    *)
(* fail or be killed between any two steps and in the middle of each, the  *)
(* next one starts on what it left, and the user's config is the user's to *)
(* make and to remove meanwhile.  Runs do not overlap.                     *)
(***************************************************************************)
CONSTANTS
    Tags,              \* the releases
    InstallHappens     \* what may happen: "breaks", "reinstalls", "user edits config"

ASSUME TagsAssumption == Tags \cap {"none", "torn"} = {}

VARIABLES
    installed,     \* each part: absent, torn, or of a release
    claim,         \* the receipt's config_created_by_installer
    userConfig,    \* config.ini: absent, made by an installer, or the user's own
    setup,         \* the run under way
    settled,       \* history: no run is under way or was broken off since
    inside         \* the client directory is below the share directory

installVars == <<installed, claim, userConfig, setup, settled, inside>>

Parts == {"ts", "share", "client", "wrapper", "uninstaller", "receipt"}

\* A config is "replaced" if the user made it when the installer had laid claim
\* to the one before.
ConfigOrigins == {"none", "installer", "user", "replaced"}

InstallPcs == {"download", "ts", "share", "client", "wrapper", "uninstaller", "look", "config",
               "receipt"}
RemovePcs == {"remove share", "remove client", "remove ts", "remove wrapper",
              "remove uninstaller", "remove config"}
RestPcs == {"idle", "uninstalled"}

Setups == [pc : InstallPcs \cup RemovePcs \cup RestPcs, half : BOOLEAN,
           tag : Tags \cup {"none", "torn"}, skip : BOOLEAN, created : BOOLEAN,
           keep : BOOLEAN, clean : BOOLEAN, owned : BOOLEAN]

AtEase == [pc |-> "idle", half |-> FALSE, tag |-> "none", skip |-> FALSE, created |-> FALSE,
           keep |-> FALSE, clean |-> FALSE, owned |-> FALSE]

InstallInit ==
    /\ installed = [part \in Parts |-> "none"]
    /\ claim = "missing"
    /\ userConfig \in {"none", "user"}
    /\ setup = AtEase
    /\ settled = TRUE
    /\ inside \in BOOLEAN

Resting == setup.pc \in RestPcs

-----------------------------------------------------------------------------
(* install-release.sh, and "ts update" in front of it                      *)

InstallBegins(tag, skip) ==
    /\ setup' = [AtEase EXCEPT !.pc = "download", !.tag = tag, !.skip = skip]
    /\ UNCHANGED <<installed, claim, userConfig, settled, inside>>

\* The user runs the installer, over an installation maybe.
Installs(tag, skip) ==
    /\ Resting
    /\ installed["ts"] # "none" => "reinstalls" \in InstallHappens
    /\ InstallBegins(tag, skip)

\* resolve_update_install_plan: a ts that runs, and a receipt with the required
\* values, which a torn one may hold or not.  A flag that is missing counts as set.
Updates(tag) ==
    /\ Resting
    /\ installed["ts"] \in Tags
    /\ installed["receipt"] # "none"
    /\ InstallBegins(tag, claim = "0")

\* download_release_archive and what is bootstrapped: all in the managed directory.
Downloads ==
    /\ setup.pc = "download"
    /\ setup' = [setup EXCEPT !.pc = "ts"]
    /\ UNCHANGED <<installed, claim, userConfig, settled, inside>>

\* A part is torn while it is replaced: written in part, removed in part or whole.
Replaces(part, next) ==
    /\ setup.pc = part
    /\ installed' = [installed EXCEPT ![part] = IF setup.half THEN setup.tag ELSE "torn"]
    /\ setup' = [setup EXCEPT !.half = ~setup.half, !.pc = IF setup.half THEN next ELSE part]
    /\ settled' = FALSE
    /\ UNCHANGED <<claim, userConfig, inside>>

\* install_release_tree, install_client_wrapper, install_uninstaller.
InstallsTs == Replaces("ts", "share")
CopiesShare == Replaces("share", "client")
WritesWrapper == Replaces("wrapper", "uninstaller")
InstallsUninstaller == Replaces("uninstaller", "look")

\* Mutant: the staged directory is moved without removing the one that is there.
StagesClientInto ==
    /\ setup.pc = "client"
    /\ installed' = [installed EXCEPT !["client"] = IF @ = "none" THEN setup.tag ELSE @]
    /\ setup' = [setup EXCEPT !.pc = "wrapper"]
    /\ settled' = FALSE
    /\ UNCHANGED <<claim, userConfig, inside>>

\* stage_client_install: the client is staged beside its directory, which is then
\* removed, and the staged one is moved there in one step.
StagesClient == Replaces("client", "wrapper")

\* Mutant: the config that init will leave is the installer's.
LooksAtConfigLate ==
    /\ setup.pc = "look"
    /\ setup' = IF setup.skip THEN [setup EXCEPT !.pc = "receipt"]
                ELSE [setup EXCEPT !.pc = "config", !.created = TRUE]
    /\ UNCHANGED <<installed, claim, userConfig, settled, inside>>

LooksAtConfig ==
    /\ setup.pc = "look"
    /\ setup' = IF setup.skip THEN [setup EXCEPT !.pc = "receipt"]
                ELSE [setup EXCEPT !.pc = "config", !.created = (userConfig = "none")]
    /\ UNCHANGED <<installed, claim, userConfig, settled, inside>>

\* "ts config init", with the ts just installed, keeps a config that is there.
InitsConfig ==
    /\ setup.pc = "config"
    /\ userConfig' = IF userConfig = "none" THEN "installer" ELSE userConfig
    /\ setup' = [setup EXCEPT !.pc = "receipt"]
    /\ UNCHANGED <<installed, claim, settled, inside>>

\* write_receipt moves a file that may be on another file system, and is cut short
\* then: a flag without its value reads as not set.  A whole one ends the install.
WritesReceipt ==
    /\ setup.pc = "receipt"
    /\ LET flag == IF setup.created THEN "1" ELSE "0"
       IN  IF setup.half
           THEN /\ installed' = [installed EXCEPT !["receipt"] = setup.tag]
                /\ claim' = flag
                /\ setup' = AtEase /\ settled' = TRUE
           ELSE /\ installed' = [installed EXCEPT !["receipt"] = "torn"]
                /\ claim' \in {flag, "0", "missing"}
                /\ setup' = [setup EXCEPT !.half = TRUE] /\ UNCHANGED settled
    /\ UNCHANGED <<userConfig, inside>>

-----------------------------------------------------------------------------
(* uninstall.sh                                                            *)

\* The receipt is read; a flag that is missing does not count as set.  The
\* script of a checkout does the same as the one that is installed.
Uninstalls(keep) ==
    /\ Resting
    /\ setup' = [AtEase EXCEPT !.pc = "remove share", !.tag = installed["receipt"],
                               !.keep = keep, !.created = (claim = "1"), !.clean = settled]
    /\ UNCHANGED <<installed, claim, userConfig, settled, inside>>

\* What goes with the share directory: the client too if it is below, provided the
\* directory has the marker of its owner and is removed as a whole.
WithShare(owned) == {"share", "receipt"} \cup (IF inside /\ owned THEN {"client"} ELSE {})

Gone(parts, left) ==
    installed' = [part \in Parts |-> IF part \in parts /\ installed[part] # "none" THEN left
                                     ELSE installed[part]]

\* remove_owned_dir_if_present for the share directory; without its marker,
\* which one that is torn may lack, only what is known to be in it.
RemovesShare ==
    /\ setup.pc = "remove share"
    /\ IF setup.half
       THEN /\ Gone(WithShare(setup.owned), "none")
            /\ setup' = [setup EXCEPT !.half = FALSE, !.pc = "remove client"]
            /\ claim' = "missing"
       ELSE /\ \E owned \in BOOLEAN :
                    /\ installed["share"] # "torn" => owned = (installed["share"] # "none")
                    /\ Gone(WithShare(owned), "torn")
                    /\ setup' = [setup EXCEPT !.half = TRUE, !.owned = owned]
            /\ UNCHANGED claim
    /\ settled' = FALSE
    /\ UNCHANGED <<userConfig, inside>>

\* A client directory that is torn may have lost its marker, and is left then; and
\* so is, without a receipt, one that is not where it is by default.
RemovesClient ==
    /\ setup.pc = "remove client"
    /\ \E left \in {"none", installed["client"]} :
            /\ setup.clean => left = "none"
            /\ Gone({"client"}, left)
    /\ setup' = [setup EXCEPT !.pc = "remove ts"]
    /\ UNCHANGED <<claim, userConfig, settled, inside>>

RemovesFile(pc, part, next) ==
    /\ setup.pc = pc
    /\ installed' = [installed EXCEPT ![part] = "none"]
    /\ setup' = [setup EXCEPT !.pc = next]
    /\ UNCHANGED <<claim, userConfig, settled, inside>>

RemovesTs == RemovesFile("remove ts", "ts", "remove wrapper")
RemovesWrapper == RemovesFile("remove wrapper", "wrapper", "remove uninstaller")
RemovesUninstaller == RemovesFile("remove uninstaller", "uninstaller", "remove config")

\* The config goes unless the user keeps it or no installer claimed it.
RemovesConfig ==
    /\ setup.pc = "remove config"
    /\ userConfig' = IF ~setup.keep /\ setup.created THEN "none" ELSE userConfig
    /\ setup' = [AtEase EXCEPT !.pc = "uninstalled", !.tag = setup.tag, !.keep = setup.keep]
    /\ settled' = setup.clean
    /\ UNCHANGED <<installed, claim, inside>>

-----------------------------------------------------------------------------
(* The user and the system                                                 *)

\* A step fails, or the run is killed.
Breaks ==
    /\ "breaks" \in InstallHappens
    /\ ~Resting
    /\ setup' = AtEase
    /\ UNCHANGED <<installed, claim, userConfig, settled, inside>>

Claimed == claim = "1" \/ setup.created

\* The user makes a config, or does away with the one there is.
UserEditsConfig ==
    /\ "user edits config" \in InstallHappens
    /\ userConfig' = IF userConfig # "none" THEN "none"
                     ELSE IF Claimed THEN "replaced" ELSE "user"
    /\ UNCHANGED <<installed, claim, setup, settled, inside>>

InstallNext ==
    \/ \E tag \in Tags : Updates(tag) \/ \E skip \in BOOLEAN : Installs(tag, skip)
    \/ Downloads \/ InstallsTs \/ CopiesShare \/ StagesClient \/ WritesWrapper
    \/ InstallsUninstaller \/ LooksAtConfig \/ InitsConfig \/ WritesReceipt
    \/ \E keep \in BOOLEAN : Uninstalls(keep)
    \/ RemovesShare \/ RemovesClient \/ RemovesTs \/ RemovesWrapper \/ RemovesUninstaller
    \/ RemovesConfig
    \/ Breaks \/ UserEditsConfig

InstallSpec == InstallInit /\ [][InstallNext]_installVars

-----------------------------------------------------------------------------
(* Properties                                                              *)

\* The variables have their types.
InstallTypeOK ==
    /\ installed \in [Parts -> Tags \cup {"none", "torn"}]
    /\ claim \in {"0", "1", "missing"}
    /\ userConfig \in ConfigOrigins
    /\ setup \in Setups
    /\ settled \in BOOLEAN /\ inside \in BOOLEAN

\* README.md: "ts update" updates the CLI, the plugin and the client together.
\* Whatever runs were broken off before, once one is complete every part is of
\* the release that the receipt names, or nothing is left of any.
InstallationIsWhole ==
    settled => \/ installed["receipt"] \in Tags
                  /\ \A part \in Parts : installed[part] = installed["receipt"]
               \/ \A part \in Parts : installed[part] = "none"

\* uninstall.sh removes the config only if the installer created it.  Neither a
\* receipt nor a run lays claim to a config that the user brought, whatever
\* updates and broken runs came since.
UsersConfigIsSafe == userConfig = "user" => ~Claimed

\* README.md: --keep-config is there to preserve a config file that the installer
\* created; without it, then, an uninstall that had a receipt leaves none.
InstallersConfigGoes ==
    setup.pc = "uninstalled" /\ setup.tag \in Tags /\ ~setup.keep => userConfig # "installer"
==============================================================================
