----------------------------- MODULE Plugin_proofs -----------------------------
(* Proofs about the plugin and its media: what a run of the installer leaves      *)
(* (Installation), for any releases; the safety properties of the plugin's start  *)
(* and end (PluginLifecycle), for any number of TeamSpeak clients that load and   *)
(* unload it at the same two paths; the command that sends a file (MediaClient);  *)
(* and the ends of a playback (MCPlaybackEnds).                                   *)
EXTENDS MCPlaybackEnds, PluginPlayback_proofs, PluginLifecycle, Installation, SequenceTheorems,
        FiniteSetTheorems, TLAPS

-----------------------------------------------------------------------------
(* Installation                                                             *)

\* What a run that installs has replaced by its step, and what a run that removes
\* a complete installation has removed by its step.
Replaced ==
    LET At(part, pcs) == setup.pc \in pcs => installed[part] = setup.tag
        Last == {"look", "config", "receipt"}
    IN  /\ At("ts", {"share", "client", "wrapper", "uninstaller"} \cup Last)
        /\ At("share", {"client", "wrapper", "uninstaller"} \cup Last)
        /\ At("client", {"wrapper", "uninstaller"} \cup Last)
        /\ At("wrapper", {"uninstaller"} \cup Last)
        /\ At("uninstaller", Last)

Removed ==
    LET At(part, pcs) == setup.clean /\ setup.pc \in pcs => installed[part] = "none"
        Last == {"remove config"}
    IN  /\ At("share", RemovePcs \ {"remove share"})
        /\ At("receipt", RemovePcs \ {"remove share"})
        /\ At("client", {"remove ts", "remove wrapper", "remove uninstaller"} \cup Last)
        /\ At("ts", {"remove wrapper", "remove uninstaller"} \cup Last)
        /\ At("wrapper", {"remove uninstaller"} \cup Last)
        /\ At("uninstaller", Last)

\* A run is of a release, and one that has begun to change the parts is not settled.
RunUnsettled ==
    /\ setup.pc \in InstallPcs => setup.tag \in Tags
    /\ setup.pc \notin RestPcs \cup {"download", "ts", "remove share"} => ~settled

SoFar == InstallationIsWhole /\ Replaced /\ Removed /\ RunUnsettled

WholeInv == InstallTypeOK /\ SoFar

-----------------------------------------------------------------------------
LEMMA InstallTypeInit == InstallInit => InstallTypeOK
BY DEF InstallInit, InstallTypeOK, Setups, AtEase, Parts, ConfigOrigins, InstallPcs, RemovePcs, RestPcs

LEMMA StepsKnown ==
    /\ {"download", "ts", "share", "client", "wrapper", "uninstaller", "look", "config", "receipt"}
           \subseteq InstallPcs
    /\ {"remove share", "remove client", "remove ts", "remove wrapper", "remove uninstaller",
        "remove config"} \subseteq RemovePcs
    /\ {"idle", "uninstalled"} \subseteq RestPcs
    /\ {"ts", "share", "client", "wrapper", "uninstaller", "receipt"} \subseteq Parts
BY DEF InstallPcs, RemovePcs, RestPcs, Parts

LEMMA InstallTypeStep == InstallTypeOK /\ [InstallNext]_installVars => InstallTypeOK'
<1> SUFFICES ASSUME InstallTypeOK, [InstallNext]_installVars PROVE InstallTypeOK'
    OBVIOUS
<1> USE StepsKnown DEF InstallTypeOK
<1>1. ASSUME NEW tag \in Tags, Updates(tag) PROVE InstallTypeOK'
    BY <1>1 DEF Updates, InstallBegins, Setups, AtEase
<1>2. ASSUME NEW tag \in Tags, NEW skip \in BOOLEAN, Installs(tag, skip) PROVE InstallTypeOK'
    BY <1>2 DEF Installs, InstallBegins, Setups, AtEase
<1>3. ASSUME NEW part \in Parts, NEW next \in InstallPcs, Replaces(part, next)
      PROVE  InstallTypeOK'
    <2>1. (IF setup.half THEN next ELSE part) \in InstallPcs \cup RemovePcs \cup RestPcs
        BY <1>3 DEF Replaces, Setups
    <2>2. setup' \in Setups
        BY <1>3, <2>1 DEF Replaces, Setups
    <2>3. installed' \in [Parts -> Tags \cup {"none", "torn"}]
        BY <1>3 DEF Replaces, Setups
    <2> QED
        BY <1>3, <2>2, <2>3 DEF Replaces
<1>4. CASE InstallsTs \/ CopiesShare \/ StagesClient \/ WritesWrapper \/ InstallsUninstaller
    <2>1. CASE InstallsTs
        BY <1>3, <2>1 DEF InstallsTs
    <2>2. CASE CopiesShare
        BY <1>3, <2>2 DEF CopiesShare
    <2>3. CASE StagesClient
        BY <1>3, <2>3 DEF StagesClient
    <2>4. CASE WritesWrapper
        BY <1>3, <2>4 DEF WritesWrapper
    <2>5. CASE InstallsUninstaller
        BY <1>3, <2>5 DEF InstallsUninstaller
    <2> QED
        BY <1>4, <2>1, <2>2, <2>3, <2>4, <2>5
<1>5. CASE Downloads
    BY <1>5 DEF Downloads, Setups
<1>6. CASE LooksAtConfig
    BY <1>6 DEF LooksAtConfig, Setups
<1>7. CASE InitsConfig
    BY <1>7 DEF InitsConfig, Setups, ConfigOrigins
<1>8. CASE WritesReceipt
    <2>1. CASE setup.half
        <3>1. setup' = AtEase /\ settled' = TRUE
            BY <1>8, <2>1 DEF WritesReceipt
        <3>2. AtEase \in Setups
            BY DEF Setups, AtEase
        <3>3. setup.tag \in Tags \cup {"none", "torn"}
            BY DEF Setups
        <3> QED
            BY <1>8, <2>1, <3>1, <3>2, <3>3 DEF WritesReceipt
    <2>2. CASE ~setup.half
        <3>1. setup' \in Setups
            BY <1>8, <2>2 DEF WritesReceipt, Setups
        <3> QED
            BY <1>8, <2>2, <3>1 DEF WritesReceipt
    <2> QED
        BY <2>1, <2>2
<1>9. ASSUME NEW keep \in BOOLEAN, Uninstalls(keep) PROVE InstallTypeOK'
    <2>1. \A claimed \in BOOLEAN, tag \in Tags \cup {"none", "torn"} :
              [AtEase EXCEPT !.pc = "remove share", !.tag = tag, !.keep = keep,
                             !.created = claimed, !.clean = settled] \in Setups
        BY DEF Setups, AtEase
    <2>2. (claim = "1") \in BOOLEAN /\ installed["receipt"] \in Tags \cup {"none", "torn"}
        OBVIOUS
    <2>3. setup' \in Setups
        BY <1>9, <2>1, <2>2 DEF Uninstalls
    <2> QED
        BY <1>9, <2>3 DEF Uninstalls
<1>10. ASSUME NEW parts, NEW left \in Tags \cup {"none", "torn"}, Gone(parts, left)
       PROVE  installed' \in [Parts -> Tags \cup {"none", "torn"}]
    <2>1. installed \in [Parts -> Tags \cup {"none", "torn"}]
        OBVIOUS
    <2> QED
        BY ONLY <1>10, <2>1 DEF Gone
<1>11. CASE RemovesShare
    <2>1. setup' \in Setups
        BY <1>11 DEF RemovesShare, Setups
    <2>2. installed' \in [Parts -> Tags \cup {"none", "torn"}]
        BY <1>10, <1>11 DEF RemovesShare
    <2> QED
        BY <1>11, <2>1, <2>2 DEF RemovesShare
<1>12. CASE RemovesClient
    <2>1. setup' \in Setups
        BY <1>12 DEF RemovesClient, Setups
    <2>2. installed' \in [Parts -> Tags \cup {"none", "torn"}]
        BY <1>10, <1>12 DEF RemovesClient
    <2> QED
        BY <1>12, <2>1, <2>2 DEF RemovesClient
<1>13. ASSUME NEW pc, NEW part \in Parts, NEW next \in RemovePcs, RemovesFile(pc, part, next)
       PROVE  InstallTypeOK'
    BY <1>13 DEF RemovesFile, Setups
<1>14. CASE RemovesTs \/ RemovesWrapper \/ RemovesUninstaller
    BY <1>13, <1>14 DEF RemovesTs, RemovesWrapper, RemovesUninstaller
<1>15. CASE RemovesConfig
    <2>1. setup' \in Setups /\ settled' \in BOOLEAN
        BY <1>15 DEF RemovesConfig, Setups, AtEase
    <2> QED
        BY <1>15, <2>1 DEF RemovesConfig, ConfigOrigins
<1>16. CASE Breaks
    BY <1>16 DEF Breaks, Setups, AtEase
<1>17. CASE UserEditsConfig
    BY <1>17 DEF UserEditsConfig, Claimed, ConfigOrigins
<1>18. CASE UNCHANGED installVars
    BY <1>18 DEF installVars
<1> HIDE DEF InstallTypeOK
<1> QED
    BY <1>1, <1>2, <1>4, <1>5, <1>6, <1>7, <1>8, <1>9, <1>11, <1>12, <1>14, <1>15, <1>16,
       <1>17, <1>18
       DEF InstallNext

\* The variables have their types, for any releases and whatever may happen.
THEOREM InstallTypeCorrect == InstallSpec => []InstallTypeOK
    BY InstallTypeInit, InstallTypeStep, PTL DEF InstallSpec

-----------------------------------------------------------------------------
LEMMA UserSafeStep ==
    InstallTypeOK /\ UsersConfigIsSafe /\ [InstallNext]_installVars => UsersConfigIsSafe'
<1> SUFFICES ASSUME setup \in Setups, UsersConfigIsSafe, [InstallNext]_installVars
             PROVE  UsersConfigIsSafe'
    BY DEF InstallTypeOK
<1> USE DEF UsersConfigIsSafe, Claimed
<1>1. ASSUME NEW tag \in Tags, NEW skip \in BOOLEAN, InstallBegins(tag, skip)
      PROVE  UsersConfigIsSafe'
    BY <1>1 DEF InstallBegins, AtEase
<1>2. ASSUME NEW tag \in Tags, Updates(tag) PROVE UsersConfigIsSafe'
    BY <1>1, <1>2 DEF Updates
<1>3. ASSUME NEW tag \in Tags, NEW skip \in BOOLEAN, Installs(tag, skip)
      PROVE  UsersConfigIsSafe'
    BY <1>1, <1>3 DEF Installs
<1>4. ASSUME NEW part, NEW next, Replaces(part, next) PROVE UsersConfigIsSafe'
    BY <1>4 DEF Replaces, Setups
<1>5. CASE InstallsTs \/ CopiesShare \/ StagesClient \/ WritesWrapper \/ InstallsUninstaller
    BY <1>4, <1>5 DEF InstallsTs, CopiesShare, StagesClient, WritesWrapper, InstallsUninstaller
<1>6. CASE Downloads
    BY <1>6 DEF Downloads, Setups
<1>7. CASE LooksAtConfig
    BY <1>7 DEF LooksAtConfig, Setups
<1>8. CASE InitsConfig
    BY <1>8 DEF InitsConfig, Setups
<1>9. CASE WritesReceipt
    BY <1>9 DEF WritesReceipt, Setups, AtEase
<1>10. ASSUME NEW keep \in BOOLEAN, Uninstalls(keep) PROVE UsersConfigIsSafe'
    BY <1>10 DEF Uninstalls, AtEase
<1>11. CASE RemovesShare
    BY <1>11 DEF RemovesShare, Setups
<1>12. CASE RemovesClient
    BY <1>12 DEF RemovesClient, Setups
<1>13. ASSUME NEW pc, NEW part, NEW next, RemovesFile(pc, part, next) PROVE UsersConfigIsSafe'
    BY <1>13 DEF RemovesFile, Setups
<1>14. CASE RemovesTs \/ RemovesWrapper \/ RemovesUninstaller
    BY <1>13, <1>14 DEF RemovesTs, RemovesWrapper, RemovesUninstaller
<1>15. CASE RemovesConfig
    BY <1>15 DEF RemovesConfig, AtEase
<1>16. CASE Breaks
    BY <1>16 DEF Breaks, AtEase
<1>17. CASE UserEditsConfig
    BY <1>17 DEF UserEditsConfig
<1>18. CASE UNCHANGED installVars
    BY <1>18 DEF installVars
<1> HIDE DEF UsersConfigIsSafe
<1> QED
    BY <1>2, <1>3, <1>5, <1>6, <1>7, <1>8, <1>9, <1>10, <1>11, <1>12, <1>14, <1>15, <1>16,
       <1>17, <1>18
       DEF InstallNext

\* Neither a receipt nor a run lays claim to the config the user brought, however
\* many runs are broken off and whatever releases they are of.
THEOREM UserSafeCorrect == InstallSpec => []UsersConfigIsSafe
<1>1. InstallInit => UsersConfigIsSafe
    BY DEF InstallInit, UsersConfigIsSafe, Claimed, AtEase
<1> QED
    BY <1>1, InstallTypeCorrect, UserSafeStep, PTL DEF InstallSpec

-----------------------------------------------------------------------------
LEMMA AtEaseSteps ==
    /\ \A pc, tag, skip :
           LET next == [AtEase EXCEPT !.pc = pc, !.tag = tag, !.skip = skip]
           IN  next.pc = pc /\ next.tag = tag /\ next.clean = FALSE
    /\ AtEase.pc = "idle" /\ AtEase.clean = FALSE
BY DEF AtEase

\* A step that changes no part, and leaves the run as settled as it was.
LEMMA PartsKept ==
    ASSUME setup \in Setups, SoFar, UNCHANGED <<installed, settled>>,
           \/ setup'.pc \in RestPcs \cup {"download"} /\ setup'.clean = FALSE
           \/ setup'.pc = setup.pc /\ setup'.tag = setup.tag /\ setup'.clean = setup.clean
           \/ setup.pc = "download" /\ setup'.pc = "ts" /\ setup'.tag = setup.tag
           \/ setup.pc \in {"look", "config"} /\ setup'.pc \in {"config", "receipt"}
              /\ setup'.tag = setup.tag /\ setup'.clean = setup.clean,
           setup'.pc \in InstallPcs => setup'.tag \in Tags
    PROVE  SoFar'
<1> USE DEF SoFar, InstallPcs, RemovePcs, RestPcs
<1>1. InstallationIsWhole'
    BY DEF InstallationIsWhole
<1>2. Replaced'
    BY DEF Replaced
<1>3. Removed'
    BY DEF Removed
<1>4. RunUnsettled'
    BY DEF RunUnsettled
<1> QED
    BY <1>1, <1>2, <1>3, <1>4

\* A part of an installation is replaced: those of the steps before stay.
LEMMA PartReplaced ==
    ASSUME setup \in Setups, InstallTypeOK, SoFar, NEW part, NEW next, Replaces(part, next),
           \/ part = "ts" /\ next = "share"
           \/ part = "share" /\ next = "client"
           \/ part = "client" /\ next = "wrapper"
           \/ part = "wrapper" /\ next = "uninstaller"
           \/ part = "uninstaller" /\ next = "look"
    PROVE  SoFar'
<1>1. /\ settled' = FALSE
      /\ setup'.tag = setup.tag /\ setup'.pc \in {part, next}
      /\ setup'.pc = part \/ (setup.half /\ setup'.pc = next)
    <2>1. setup.half \in BOOLEAN
        BY DEF Setups
    <2>2. setup'.tag = setup.tag /\ setup'.pc = IF setup.half THEN next ELSE part
        BY DEF Replaces, Setups
    <2> QED
        BY <2>1, <2>2 DEF Replaces
<1>2. /\ setup.pc = part
      /\ \A other \in Parts \ {part} : installed'[other] = installed[other]
      /\ setup.half => installed'[part] = setup.tag
    BY DEF Replaces, InstallTypeOK, Parts
<1>3. InstallationIsWhole'
    BY <1>1 DEF InstallationIsWhole
<1>4. Replaced'
    <2>1. setup'.pc = part => Replaced'
        BY <1>1, <1>2 DEF SoFar, Replaced, Parts
    <2>2. setup.half /\ setup'.pc = next => Replaced'
        BY <1>1, <1>2 DEF SoFar, Replaced, Parts
    <2> QED
        BY <1>1, <2>1, <2>2
<1>5. Removed'
    BY <1>1 DEF Removed, RemovePcs
<1>6. RunUnsettled'
    BY <1>1, <1>2 DEF SoFar, RunUnsettled, InstallPcs
<1> QED
    BY <1>3, <1>4, <1>5, <1>6 DEF SoFar

\* A file of an installation is removed: those of the steps before stay so.
LEMMA FileRemoved ==
    ASSUME setup \in Setups, InstallTypeOK, SoFar, NEW pc, NEW part, NEW next,
           RemovesFile(pc, part, next),
           \/ pc = "remove ts" /\ part = "ts" /\ next = "remove wrapper"
           \/ pc = "remove wrapper" /\ part = "wrapper" /\ next = "remove uninstaller"
           \/ pc = "remove uninstaller" /\ part = "uninstaller" /\ next = "remove config"
    PROVE  SoFar'
<1>1. /\ setup.pc = pc /\ setup'.pc = next /\ setup'.clean = setup.clean
      /\ settled = FALSE /\ settled' = FALSE
    BY DEF RemovesFile, Setups, SoFar, RunUnsettled, RestPcs, InstallTypeOK
<1>2. /\ installed'[part] = "none"
      /\ \A other \in Parts \ {part} : installed'[other] = installed[other]
    BY DEF RemovesFile, InstallTypeOK, Parts
<1>3. InstallationIsWhole' /\ Replaced' /\ RunUnsettled'
    BY <1>1 DEF InstallationIsWhole, Replaced, RunUnsettled, InstallPcs
<1>4. Removed'
    BY <1>1, <1>2 DEF SoFar, Removed, RemovePcs, Parts
<1> QED
    BY <1>3, <1>4 DEF SoFar

LEMMA WholeStep == WholeInv /\ [InstallNext]_installVars => WholeInv'
<1> SUFFICES ASSUME InstallTypeOK, setup \in Setups, SoFar, [InstallNext]_installVars
             PROVE  SoFar'
    BY InstallTypeStep DEF WholeInv, InstallTypeOK
<1>1. ASSUME NEW tag \in Tags, NEW skip \in BOOLEAN, InstallBegins(tag, skip) PROVE SoFar'
    <2>1. setup'.pc = "download" /\ setup'.tag = tag /\ setup'.clean = FALSE
        BY <1>1, AtEaseSteps DEF InstallBegins
    <2> QED
        BY <1>1, <2>1, PartsKept DEF InstallBegins
<1>2. ASSUME NEW tag \in Tags, Updates(tag) PROVE SoFar'
    BY <1>1, <1>2 DEF Updates
<1>3. ASSUME NEW tag \in Tags, NEW skip \in BOOLEAN, Installs(tag, skip) PROVE SoFar'
    BY <1>1, <1>3 DEF Installs
<1>4. CASE InstallsTs \/ CopiesShare \/ StagesClient \/ WritesWrapper \/ InstallsUninstaller
    <2>1. CASE InstallsTs
        <3>1. Replaces("ts", "share")
            BY <2>1 DEF InstallsTs
        <3> QED
            BY <3>1, PartReplaced
    <2>2. CASE CopiesShare
        <3>1. Replaces("share", "client")
            BY <2>2 DEF CopiesShare
        <3> QED
            BY <3>1, PartReplaced
    <2>3. CASE StagesClient
        <3>1. Replaces("client", "wrapper")
            BY <2>3 DEF StagesClient
        <3> QED
            BY <3>1, PartReplaced
    <2>4. CASE WritesWrapper
        <3>1. Replaces("wrapper", "uninstaller")
            BY <2>4 DEF WritesWrapper
        <3> QED
            BY <3>1, PartReplaced
    <2>5. CASE InstallsUninstaller
        <3>1. Replaces("uninstaller", "look")
            BY <2>5 DEF InstallsUninstaller
        <3> QED
            BY <3>1, PartReplaced
    <2> QED
        BY <1>4, <2>1, <2>2, <2>3, <2>4, <2>5
<1>5. CASE Downloads
    BY <1>5, PartsKept DEF Downloads, Setups, SoFar, RunUnsettled, InstallPcs
<1>6. CASE LooksAtConfig
    BY <1>6, PartsKept DEF LooksAtConfig, Setups, SoFar, RunUnsettled, InstallPcs
<1>7. CASE InitsConfig
    BY <1>7, PartsKept DEF InitsConfig, Setups, SoFar, RunUnsettled, InstallPcs
<1>8. CASE WritesReceipt
    <2>1. /\ setup.pc = "receipt" /\ settled = FALSE /\ setup.tag \in Tags
          /\ \A part \in Parts \ {"receipt"} : installed[part] = setup.tag
          /\ \A part \in Parts \ {"receipt"} : installed'[part] = installed[part]
        BY <1>8 DEF WritesReceipt, SoFar, RunUnsettled, Replaced, InstallPcs, RestPcs, Parts,
                    InstallTypeOK
    <2>2. CASE setup.half
        <3>1. /\ installed'["receipt"] = setup.tag
              /\ setup'.pc = "idle" /\ setup'.clean = FALSE
            BY <1>8, <2>2, AtEaseSteps DEF WritesReceipt, InstallTypeOK, Parts
        <3> QED
            BY <2>1, <3>1 DEF SoFar, InstallationIsWhole, Replaced, Removed, RunUnsettled, Parts,
                              InstallPcs, RemovePcs, RestPcs
    <2>3. CASE ~setup.half
        <3>1. /\ settled' = FALSE /\ setup'.pc = "receipt"
              /\ setup'.tag = setup.tag /\ setup'.clean = setup.clean
            BY <1>8, <2>1, <2>3 DEF WritesReceipt, Setups
        <3> QED
            BY <2>1, <3>1 DEF SoFar, InstallationIsWhole, Replaced, Removed, RunUnsettled, Parts,
                              InstallPcs, RemovePcs, RestPcs
    <2> QED
        BY <2>2, <2>3
<1>9. ASSUME NEW keep \in BOOLEAN, Uninstalls(keep) PROVE SoFar'
    <2>1. setup'.pc = "remove share"
        BY <1>9 DEF Uninstalls, AtEase
    <2> QED
        BY <1>9, <2>1 DEF Uninstalls, SoFar, InstallationIsWhole, Replaced, Removed, RunUnsettled,
                          InstallPcs, RemovePcs, RestPcs
<1>10. CASE RemovesShare
    <2>1. settled' = FALSE /\ setup'.clean = setup.clean /\ setup.pc = "remove share"
        BY <1>10 DEF RemovesShare, Setups
    <2>2. CASE setup.half
        <3>1. setup'.pc = "remove client"
            BY <1>10, <2>2 DEF RemovesShare, Setups
        <3>2. installed'["share"] = "none" /\ installed'["receipt"] = "none"
            BY <1>10, <2>2 DEF RemovesShare, Gone, WithShare, Parts
        <3> QED
            BY <2>1, <3>1, <3>2 DEF SoFar, InstallationIsWhole, Replaced, Removed, RunUnsettled,
                                    InstallPcs, RemovePcs, RestPcs
    <2>3. CASE ~setup.half
        <3>1. setup'.pc = "remove share"
            BY <1>10, <2>3 DEF RemovesShare, Setups
        <3> QED
            BY <2>1, <3>1 DEF SoFar, InstallationIsWhole, Replaced, Removed, RunUnsettled,
                              InstallPcs, RemovePcs, RestPcs
    <2> QED
        BY <2>2, <2>3
<1>11. CASE RemovesClient
    <2>1. /\ setup.pc = "remove client" /\ setup'.pc = "remove ts"
          /\ setup'.clean = setup.clean /\ settled = FALSE /\ settled' = FALSE
        BY <1>11 DEF RemovesClient, Setups, SoFar, RunUnsettled, RestPcs, InstallTypeOK
    <2>2. /\ setup.clean => installed'["client"] = "none"
          /\ installed'["share"] = installed["share"]
          /\ installed'["receipt"] = installed["receipt"]
        BY <1>11 DEF RemovesClient, Gone, Parts
    <2> QED
        BY <2>1, <2>2 DEF SoFar, InstallationIsWhole, Replaced, Removed, RunUnsettled, InstallPcs,
                          RemovePcs, RestPcs
<1>12. CASE RemovesTs \/ RemovesWrapper \/ RemovesUninstaller
    BY <1>12, FileRemoved DEF RemovesTs, RemovesWrapper, RemovesUninstaller
<1>13. CASE RemovesConfig
    <2>1. /\ setup'.pc = "uninstalled" /\ setup'.clean = FALSE
          /\ settled' = setup.clean /\ UNCHANGED installed
        BY <1>13 DEF RemovesConfig, AtEase
    <2>2. setup.clean => \A part \in Parts : installed[part] = "none"
        BY <1>13 DEF RemovesConfig, SoFar, Removed, RemovePcs, Parts
    <2> QED
        BY <2>1, <2>2 DEF SoFar, InstallationIsWhole, Replaced, Removed, RunUnsettled, InstallPcs,
                          RemovePcs, RestPcs
<1>14. CASE Breaks
    BY <1>14, PartsKept, AtEaseSteps DEF Breaks, RestPcs, InstallPcs
<1>15. CASE UserEditsConfig
    BY <1>15, PartsKept DEF UserEditsConfig, SoFar, RunUnsettled
<1>16. CASE UNCHANGED installVars
    BY <1>16, PartsKept DEF installVars, SoFar, RunUnsettled
<1> QED
    BY <1>2, <1>3, <1>4, <1>5, <1>6, <1>7, <1>8, <1>9, <1>10, <1>11, <1>12, <1>13, <1>14, <1>15,
       <1>16
       DEF InstallNext

\* Whatever runs were broken off before, a complete one leaves every part of one
\* release, which the receipt names, or nothing.
THEOREM WholeCorrect == InstallSpec => []InstallationIsWhole
<1>1. InstallInit => WholeInv
    <2> SUFFICES ASSUME InstallInit PROVE SoFar
        BY InstallTypeInit DEF WholeInv
    <2> QED
        BY DEF SoFar, InstallInit, AtEase, InstallationIsWhole, Replaced, Removed, RunUnsettled,
               InstallPcs, RemovePcs, RestPcs
<1>2. WholeInv => InstallationIsWhole
    BY DEF WholeInv, SoFar
<1> QED
    BY <1>1, <1>2, WholeStep, PTL DEF InstallSpec

-----------------------------------------------------------------------------
(* The plugin's start and end                                               *)

\* Where a plugin has its media socket, its control socket, and an accept thread.
HasMedia == {"media listen", "initialize", "unlink", "bind", "listen", "cleanup",
             "cleanup media", "running", "wake", "join", "close", "stop backend", "stop media"}
Serving == {"running", "wake", "join", "close"}
HasControl == Serving \cup {"listen"}
MayHaveControl == HasControl \cup {"cleanup", "cleanup media", "cleanup backend"}
Stopping == {"wake", "join", "close", "stop backend", "stop media"}

MayHaveBackend == Serving \cup {"unlink", "bind", "listen", "cleanup", "cleanup media",
                                "cleanup backend", "stop backend"}
MayHaveBridge == {"media unlink", "media bind", "media listen", "initialize", "unlink", "bind",
                  "listen", "cleanup", "cleanup media", "running"}

\* What a plugin holds is told by how far it is.
HoldsByPc(r) ==
    /\ "media" \in r.open <=> r.pc \in HasMedia
    /\ r.pc \in HasControl => "control" \in r.open
    /\ "control" \in r.open => r.pc \in MayHaveControl
    /\ r.accept # "off" <=> r.pc \in Serving
    /\ r.accept = "off" => r.backlog = 0
    /\ r.stop <=> r.pc \in Stopping
    /\ r.initialized => r.pc \in MayHaveBackend
    /\ r.bridgeSet => r.pc \in MayHaveBridge
    /\ r.pc = "unloaded" => ~r.handle

\* A file is bound to an open socket.
FilesAreOpen == \A p \in Plugins, path \in Paths : files[path] = p => path \in plugin[p].open

\* A plugin p, at r, that was not crossed finds in fs what it left at the paths.
Undisturbed(p, r, fs) ==
    ~r.crossed =>
        /\ r.pc = "media bind" => fs["media"] \in {"none", "regular"}
        /\ r.pc = "bind" => fs["control"] \in {"none", "regular"}
        /\ r.pc \in HasMedia \ {"cleanup", "cleanup media"} => fs["media"] = p
        /\ r.pc \in HasControl => fs["control"] = p
        /\ r.pc = "join" => r.accept # "accept" \/ r.backlog > 0

\* Everything that is said of one plugin.
Sound(p, r, fs) ==
    /\ HoldsByPc(r)
    /\ \A path \in Paths : fs[path] = p => path \in r.open
    /\ Undisturbed(p, r, fs)

LifecycleInv ==
    /\ LifecycleTypeOK
    /\ \A p \in Plugins : Sound(p, plugin[p], files)

Records == [pc : Pcs, open : SUBSET Paths, accept : {"off", "check", "accept", "done"},
            backlog : Nat, stop : BOOLEAN, handle : BOOLEAN, initialized : BOOLEAN,
            bridgeSet : BOOLEAN, crossed : BOOLEAN]

USE DEF Paths

\* A plugin nobody has loaded holds nothing.
LEMMA InitSound == LifecycleInit => LifecycleInv
<1> SUFFICES ASSUME LifecycleInit PROVE LifecycleInv
  OBVIOUS
<1>1. Unloaded \in Records
  BY DEF Unloaded, Records, Pcs
<1>2. LifecycleTypeOK
  BY <1>1 DEF LifecycleInit, LifecycleTypeOK, Records, NotBound
<1>3. ASSUME NEW p \in Plugins PROVE Sound(p, plugin[p], files)
  <2>1. plugin[p] = Unloaded /\ \A path \in Paths : files[path] # p
    BY PluginsAssumption DEF LifecycleInit, NotBound
  <2> QED
    BY <2>1 DEF Sound, HoldsByPc, Undisturbed, Unloaded, HasMedia, HasControl, Serving,
                MayHaveControl, MayHaveBackend, MayHaveBridge, Stopping
<1> QED BY <1>2, <1>3 DEF LifecycleInv

\* A step of p that touches no path keeps the invariant if p is sound after it.
LEMMA AdvancesSound ==
    ASSUME LifecycleInv, NEW p \in Plugins, NEW r \in Records, Advances(p, r),
           UNCHANGED files, Sound(p, r, files)
    PROVE  LifecycleInv'
<1>1. plugin \in [Plugins -> Records]
  BY DEF LifecycleInv, LifecycleTypeOK, Records
<1>2. plugin' \in [Plugins -> Records] /\ plugin'[p] = r
      /\ \A q \in Plugins \ {p} : plugin'[q] = plugin[q]
  BY <1>1 DEF Advances
<1>3. LifecycleTypeOK'
  BY <1>2 DEF LifecycleInv, LifecycleTypeOK, Records
<1>4. \A q \in Plugins : Sound(q, plugin'[q], files')
  BY <1>2 DEF LifecycleInv
<1> QED BY <1>3, <1>4 DEF LifecycleInv

\* A step of p on the paths leaves there p's own files or none: the others lose
\* theirs, but then they have been crossed.
LEMMA TouchesSound ==
    ASSUME LifecycleInv, NEW p \in Plugins, NEW r \in Records, Touches(p, r),
           files' \in [Paths -> NotBound \cup Plugins],
           \A path \in Paths : files'[path] \in {files[path], p} \cup NotBound,
           Sound(p, r, files')
    PROVE  LifecycleInv'
<1>1. plugin \in [Plugins -> Records]
  BY DEF LifecycleInv, LifecycleTypeOK, Records
<1>2. \A q \in Plugins : [plugin[q] EXCEPT !.crossed = Loaded(q)] \in Records
  BY <1>1 DEF Records, Loaded
<1>3. plugin' \in [Plugins -> Records] /\ plugin'[p] = r
      /\ \A q \in Plugins \ {p} : plugin'[q] = [plugin[q] EXCEPT !.crossed = Loaded(q)]
  BY <1>1, <1>2 DEF Touches
<1>4. LifecycleTypeOK'
  BY <1>3 DEF LifecycleTypeOK, Records
<1>5. ASSUME NEW q \in Plugins \ {p} PROVE Sound(q, plugin'[q], files')
  <2>1. PICK old \in Records : old = plugin[q]
    BY <1>1
  <2>2. PICK new \in Records : new = plugin'[q]
    BY <1>3
  <2>3. new = [old EXCEPT !.crossed = old.pc # "unloaded"]
    BY <1>3, <2>1, <2>2 DEF Loaded
  <2>4. /\ new.pc = old.pc /\ new.open = old.open /\ new.accept = old.accept
        /\ new.backlog = old.backlog /\ new.stop = old.stop /\ new.handle = old.handle
        /\ new.initialized = old.initialized /\ new.bridgeSet = old.bridgeSet
        /\ new.crossed = (old.pc # "unloaded")
    BY <2>3 DEF Records
  <2>5. Sound(q, old, files)
    BY <2>1 DEF LifecycleInv
  <2>6. \A path \in Paths : files'[path] = q => files[path] = q
    BY PluginsAssumption DEF NotBound
  <2>7. Undisturbed(q, new, files')
    BY <2>4 DEF Undisturbed, HasMedia, HasControl, Serving
  <2>8. HoldsByPc(new)
    BY <2>4, <2>5 DEF Sound, HoldsByPc
  <2> QED BY <2>2, <2>4, <2>5, <2>6, <2>7, <2>8 DEF Sound
<1>6. \A q \in Plugins : Sound(q, plugin'[q], files')
  BY <1>3, <1>5
<1> QED BY <1>4, <1>6 DEF LifecycleInv

\* What the invariant says of the plugin that takes the step.
LEMMA StepFacts ==
    ASSUME LifecycleInv, NEW p \in Plugins
    PROVE  /\ plugin[p] \in Records /\ Sound(p, plugin[p], files)
           /\ files \in [Paths -> NotBound \cup Plugins] /\ p \notin NotBound
BY PluginsAssumption DEF LifecycleInv, LifecycleTypeOK, Records

\* Loading begins with nothing held.
LEMMA ts3plugin_initSound ==
    ASSUME LifecycleInv, NEW p \in Plugins, ts3plugin_init(p)
    PROVE  LifecycleInv'
<1> DEFINE old == plugin[p]
<1>0. /\ old \in Records /\ Sound(p, old, files)
      /\ files \in [Paths -> NotBound \cup Plugins] /\ p \notin NotBound
  BY StepFacts
<1> DEFINE r == [plugin[p] EXCEPT !.pc = "media unlink", !.handle = TRUE, !.bridgeSet = TRUE,
                             !.crossed = FALSE]
<1>1. r \in Records
  BY <1>0 DEF Records, Pcs
<1>2. /\ r.pc = "media unlink" /\ r.open = old.open /\ r.accept = old.accept
      /\ r.backlog = old.backlog /\ r.stop = old.stop /\ r.handle = TRUE
      /\ r.initialized = old.initialized /\ r.bridgeSet = TRUE /\ r.crossed = FALSE
  BY <1>0 DEF Records
<1>3. Advances(p, r) /\ UNCHANGED files
  BY DEF ts3plugin_init
<1> HIDE DEF r
<1>4. Sound(p, r, files)
  BY <1>2, <1>0 DEF ts3plugin_init, Loaded, Sound, HoldsByPc, Undisturbed, HasMedia,
                 HasControl, Serving, MayHaveControl, MayHaveBackend, MayHaveBridge, Stopping
<1> QED BY <1>1, <1>3, <1>4, AdvancesSound

\* The path is free after an unlink, unless it holds no socket.
LEMMA MediaUnlinkSound ==
    ASSUME LifecycleInv, NEW p \in Plugins, MediaUnlink(p)
    PROVE  LifecycleInv'
<1> DEFINE old == plugin[p]
<1>0. /\ old \in Records /\ Sound(p, old, files)
      /\ files \in [Paths -> NotBound \cup Plugins] /\ p \notin NotBound
  BY StepFacts
<1>1. CASE files' = Unlinked("media") /\ Touches(p, [plugin[p] EXCEPT !.pc = "media bind"])
  <2> DEFINE r == [plugin[p] EXCEPT !.pc = "media bind"]
  <2>1. r \in Records
    BY <1>1, <1>0 DEF Records, Pcs
  <2>2. /\ r.pc = "media bind" /\ r.open = old.open /\ r.accept = old.accept
        /\ r.backlog = old.backlog /\ r.stop = old.stop /\ r.handle = old.handle
        /\ r.initialized = old.initialized /\ r.bridgeSet = old.bridgeSet /\ r.crossed = old.crossed
    BY <1>1, <1>0 DEF Records
  <2>3. Touches(p, r)
    BY <1>1 DEF MediaUnlink
  <2> HIDE DEF r
  <2>4. files' \in [Paths -> NotBound \cup Plugins]
        /\ \A path \in Paths : files'[path] \in {files[path], p} \cup NotBound
    BY <1>1, <1>0 DEF MediaUnlink, NotBound, Unlinked
  <2>5. Sound(p, r, files')
    BY <1>1, <2>2, <1>0 DEF MediaUnlink, NotBound, Unlinked, Sound, HoldsByPc, Undisturbed, HasMedia,
                   HasControl, Serving, MayHaveControl, MayHaveBackend, MayHaveBridge, Stopping
  <2> QED BY <2>1, <2>3, <2>4, <2>5, TouchesSound
<1>2. CASE Advances(p, MediaStartFailed(p)) /\ UNCHANGED files
  <2> DEFINE r == MediaStartFailed(p)
  <2>1. r \in Records
    BY <1>2, <1>0 DEF Records, Pcs, MediaStartFailed
  <2>2. /\ r.pc = "unloaded" /\ r.open = {} /\ r.accept = old.accept
        /\ r.backlog = old.backlog /\ r.stop = old.stop /\ r.handle = FALSE
        /\ r.initialized = old.initialized /\ r.bridgeSet = FALSE /\ r.crossed = old.crossed
    BY <1>2, <1>0 DEF Records, MediaStartFailed
  <2>3. Advances(p, r) /\ UNCHANGED files
    BY <1>2 DEF MediaUnlink, MediaStartFailed
  <2> HIDE DEF r
  <2>4. Sound(p, r, files)
    BY <1>2, <2>2, <1>0 DEF MediaUnlink, Loaded, Sound, HoldsByPc, Undisturbed, HasMedia,
                   HasControl, Serving, MayHaveControl, MayHaveBackend, MayHaveBridge, Stopping
  <2> QED BY <2>1, <2>3, <2>4, AdvancesSound
<1> QED BY <1>1, <1>2 DEF MediaUnlink

\* Binding makes the file of the media path its own.
LEMMA MediaBindSound ==
    ASSUME LifecycleInv, NEW p \in Plugins, MediaBind(p)
    PROVE  LifecycleInv'
<1> DEFINE old == plugin[p]
<1>0. /\ old \in Records /\ Sound(p, old, files)
      /\ files \in [Paths -> NotBound \cup Plugins] /\ p \notin NotBound
  BY StepFacts
<1>1. CASE /\ files["media"] = "none" /\ files' = [files EXCEPT !["media"] = p]
            /\ Touches(p, [plugin[p] EXCEPT !.pc = "media listen", !.open = {"media"}])
  <2> DEFINE r == [plugin[p] EXCEPT !.pc = "media listen", !.open = {"media"}]
  <2>1. r \in Records
    BY <1>1, <1>0 DEF Records, Pcs
  <2>2. /\ r.pc = "media listen" /\ r.open = {"media"} /\ r.accept = old.accept
        /\ r.backlog = old.backlog /\ r.stop = old.stop /\ r.handle = old.handle
        /\ r.initialized = old.initialized /\ r.bridgeSet = old.bridgeSet /\ r.crossed = old.crossed
    BY <1>1, <1>0 DEF Records
  <2>3. Touches(p, r)
    BY <1>1 DEF MediaBind
  <2> HIDE DEF r
  <2>4. files' \in [Paths -> NotBound \cup Plugins]
        /\ \A path \in Paths : files'[path] \in {files[path], p} \cup NotBound
    BY <1>1, <1>0 DEF MediaBind, NotBound
  <2>5. Sound(p, r, files')
    BY <1>1, <2>2, <1>0 DEF MediaBind, NotBound, Sound, HoldsByPc, Undisturbed, HasMedia,
                   HasControl, Serving, MayHaveControl, MayHaveBackend, MayHaveBridge, Stopping
  <2> QED BY <2>1, <2>3, <2>4, <2>5, TouchesSound
<1>2. CASE Advances(p, MediaStartFailed(p)) /\ UNCHANGED files
  <2> DEFINE r == MediaStartFailed(p)
  <2>1. r \in Records
    BY <1>2, <1>0 DEF Records, Pcs, MediaStartFailed
  <2>2. /\ r.pc = "unloaded" /\ r.open = {} /\ r.accept = old.accept
        /\ r.backlog = old.backlog /\ r.stop = old.stop /\ r.handle = FALSE
        /\ r.initialized = old.initialized /\ r.bridgeSet = FALSE /\ r.crossed = old.crossed
    BY <1>2, <1>0 DEF Records, MediaStartFailed
  <2>3. Advances(p, r) /\ UNCHANGED files
    BY <1>2 DEF MediaBind, MediaStartFailed
  <2> HIDE DEF r
  <2>4. Sound(p, r, files)
    BY <1>2, <2>2, <1>0 DEF MediaBind, Loaded, Sound, HoldsByPc, Undisturbed, HasMedia,
                   HasControl, Serving, MayHaveControl, MayHaveBackend, MayHaveBridge, Stopping
  <2> QED BY <2>1, <2>3, <2>4, AdvancesSound
<1> QED BY <1>1, <1>2 DEF MediaBind

\* A media socket that cannot listen leaves a file of nobody.
LEMMA MediaListenSound ==
    ASSUME LifecycleInv, NEW p \in Plugins, MediaListen(p)
    PROVE  LifecycleInv'
<1> DEFINE old == plugin[p]
<1>0. /\ old \in Records /\ Sound(p, old, files)
      /\ files \in [Paths -> NotBound \cup Plugins] /\ p \notin NotBound
  BY StepFacts
<1>1. CASE Advances(p, [plugin[p] EXCEPT !.pc = "initialize"]) /\ UNCHANGED files
  <2> DEFINE r == [plugin[p] EXCEPT !.pc = "initialize"]
  <2>1. r \in Records
    BY <1>1, <1>0 DEF Records, Pcs
  <2>2. /\ r.pc = "initialize" /\ r.open = old.open /\ r.accept = old.accept
        /\ r.backlog = old.backlog /\ r.stop = old.stop /\ r.handle = old.handle
        /\ r.initialized = old.initialized /\ r.bridgeSet = old.bridgeSet /\ r.crossed = old.crossed
    BY <1>1, <1>0 DEF Records
  <2>3. Advances(p, r) /\ UNCHANGED files
    BY <1>1 DEF MediaListen
  <2> HIDE DEF r
  <2>4. Sound(p, r, files)
    BY <1>1, <2>2, <1>0 DEF MediaListen, Loaded, Sound, HoldsByPc, Undisturbed, HasMedia,
                   HasControl, Serving, MayHaveControl, MayHaveBackend, MayHaveBridge, Stopping
  <2> QED BY <2>1, <2>3, <2>4, AdvancesSound
<1>2. CASE Touches(p, MediaStartFailed(p)) /\ files' = Closed(files, {"media"}, p)
  <2> DEFINE r == MediaStartFailed(p)
  <2>1. r \in Records
    BY <1>2, <1>0 DEF Records, Pcs, MediaStartFailed
  <2>2. /\ r.pc = "unloaded" /\ r.open = {} /\ r.accept = old.accept
        /\ r.backlog = old.backlog /\ r.stop = old.stop /\ r.handle = FALSE
        /\ r.initialized = old.initialized /\ r.bridgeSet = FALSE /\ r.crossed = old.crossed
    BY <1>2, <1>0 DEF Records, MediaStartFailed
  <2>3. Touches(p, r)
    BY <1>2 DEF MediaListen, MediaStartFailed
  <2> HIDE DEF r
  <2>4. files' \in [Paths -> NotBound \cup Plugins]
        /\ \A path \in Paths : files'[path] \in {files[path], p} \cup NotBound
    BY <1>2, <1>0 DEF MediaListen, NotBound, Closed
  <2>5. Sound(p, r, files')
    BY <1>2, <2>2, <1>0 DEF MediaListen, NotBound, Closed, Sound, HoldsByPc, Undisturbed, HasMedia,
                   HasControl, Serving, MayHaveControl, MayHaveBackend, MayHaveBridge, Stopping
  <2> QED BY <2>1, <2>3, <2>4, <2>5, TouchesSound
<1> QED BY <1>1, <1>2 DEF MediaListen

\* The backend holds no path.
LEMMA InitializeSound ==
    ASSUME LifecycleInv, NEW p \in Plugins, Initialize(p)
    PROVE  LifecycleInv'
<1> DEFINE old == plugin[p]
<1>0. /\ old \in Records /\ Sound(p, old, files)
      /\ files \in [Paths -> NotBound \cup Plugins] /\ p \notin NotBound
  BY StepFacts
<1>1. PICK initialized \in BOOLEAN, pc \in {"unlink", "cleanup"} :
        Advances(p, [plugin[p] EXCEPT !.pc = pc, !.initialized = initialized])
  BY DEF Initialize
<1> DEFINE r == [plugin[p] EXCEPT !.pc = pc, !.initialized = initialized]
<1>2. r \in Records
  BY <1>1, <1>0 DEF Records, Pcs
<1>3. /\ r.pc = pc /\ r.open = old.open /\ r.accept = old.accept
      /\ r.backlog = old.backlog /\ r.stop = old.stop /\ r.handle = old.handle
      /\ r.initialized = initialized /\ r.bridgeSet = old.bridgeSet /\ r.crossed = old.crossed
  BY <1>1, <1>0 DEF Records
<1>4. Advances(p, r) /\ UNCHANGED files
  BY <1>1 DEF Initialize
<1> HIDE DEF r
<1>5. Sound(p, r, files)
  BY <1>1, <1>3, <1>0 DEF Initialize, Loaded, Sound, HoldsByPc, Undisturbed, HasMedia,
                 HasControl, Serving, MayHaveControl, MayHaveBackend, MayHaveBridge, Stopping
<1> QED BY <1>2, <1>4, <1>5, AdvancesSound

\* The control path is free after an unlink, unless it holds no socket.
LEMMA ControlUnlinkSound ==
    ASSUME LifecycleInv, NEW p \in Plugins, ControlUnlink(p)
    PROVE  LifecycleInv'
<1> DEFINE old == plugin[p]
<1>0. /\ old \in Records /\ Sound(p, old, files)
      /\ files \in [Paths -> NotBound \cup Plugins] /\ p \notin NotBound
  BY StepFacts
<1> DEFINE r == [plugin[p] EXCEPT !.pc = "bind"]
<1>1. r \in Records
  BY <1>0 DEF Records, Pcs
<1>2. /\ r.pc = "bind" /\ r.open = old.open /\ r.accept = old.accept
      /\ r.backlog = old.backlog /\ r.stop = old.stop /\ r.handle = old.handle
      /\ r.initialized = old.initialized /\ r.bridgeSet = old.bridgeSet /\ r.crossed = old.crossed
  BY <1>0 DEF Records
<1>3. Touches(p, r)
  BY DEF ControlUnlink
<1> HIDE DEF r
<1>4. files' \in [Paths -> NotBound \cup Plugins]
      /\ \A path \in Paths : files'[path] \in {files[path], p} \cup NotBound
  BY <1>0 DEF ControlUnlink, NotBound, Unlinked
<1>5. Sound(p, r, files')
  BY <1>2, <1>0 DEF ControlUnlink, NotBound, Unlinked, Sound, HoldsByPc, Undisturbed, HasMedia,
                 HasControl, Serving, MayHaveControl, MayHaveBackend, MayHaveBridge, Stopping
<1> QED BY <1>1, <1>3, <1>4, <1>5, TouchesSound

\* Binding makes the file of the control path its own.
LEMMA ControlBindSound ==
    ASSUME LifecycleInv, NEW p \in Plugins, ControlBind(p)
    PROVE  LifecycleInv'
<1> DEFINE old == plugin[p]
<1>0. /\ old \in Records /\ Sound(p, old, files)
      /\ files \in [Paths -> NotBound \cup Plugins] /\ p \notin NotBound
  BY StepFacts
<1>1. CASE /\ files["control"] = "none" /\ files' = [files EXCEPT !["control"] = p]
            /\ Touches(p, [plugin[p] EXCEPT !.pc = "listen", !.open = @ \cup {"control"}])
  <2> DEFINE r == [plugin[p] EXCEPT !.pc = "listen", !.open = @ \cup {"control"}]
  <2>1. r \in Records
    BY <1>1, <1>0 DEF Records, Pcs
  <2>2. /\ r.pc = "listen" /\ r.open = (old.open \cup {"control"}) /\ r.accept = old.accept
        /\ r.backlog = old.backlog /\ r.stop = old.stop /\ r.handle = old.handle
        /\ r.initialized = old.initialized /\ r.bridgeSet = old.bridgeSet /\ r.crossed = old.crossed
    BY <1>1, <1>0 DEF Records
  <2>3. Touches(p, r)
    BY <1>1 DEF ControlBind
  <2> HIDE DEF r
  <2>4. files' \in [Paths -> NotBound \cup Plugins]
        /\ \A path \in Paths : files'[path] \in {files[path], p} \cup NotBound
    BY <1>1, <1>0 DEF ControlBind, NotBound
  <2>5. Sound(p, r, files')
    BY <1>1, <2>2, <1>0 DEF ControlBind, NotBound, Sound, HoldsByPc, Undisturbed, HasMedia,
                   HasControl, Serving, MayHaveControl, MayHaveBackend, MayHaveBridge, Stopping
  <2> QED BY <2>1, <2>3, <2>4, <2>5, TouchesSound
<1>2. CASE Advances(p, [plugin[p] EXCEPT !.pc = "cleanup"]) /\ UNCHANGED files
  <2> DEFINE r == [plugin[p] EXCEPT !.pc = "cleanup"]
  <2>1. r \in Records
    BY <1>2, <1>0 DEF Records, Pcs
  <2>2. /\ r.pc = "cleanup" /\ r.open = old.open /\ r.accept = old.accept
        /\ r.backlog = old.backlog /\ r.stop = old.stop /\ r.handle = old.handle
        /\ r.initialized = old.initialized /\ r.bridgeSet = old.bridgeSet /\ r.crossed = old.crossed
    BY <1>2, <1>0 DEF Records
  <2>3. Advances(p, r) /\ UNCHANGED files
    BY <1>2 DEF ControlBind
  <2> HIDE DEF r
  <2>4. Sound(p, r, files)
    BY <1>2, <2>2, <1>0 DEF ControlBind, Loaded, Sound, HoldsByPc, Undisturbed, HasMedia,
                   HasControl, Serving, MayHaveControl, MayHaveBackend, MayHaveBridge, Stopping
  <2> QED BY <2>1, <2>3, <2>4, AdvancesSound
<1> QED BY <1>1, <1>2 DEF ControlBind

\* The accept thread starts with the stop request not made.
LEMMA ControlListenSound ==
    ASSUME LifecycleInv, NEW p \in Plugins, ControlListen(p)
    PROVE  LifecycleInv'
<1> DEFINE old == plugin[p]
<1>0. /\ old \in Records /\ Sound(p, old, files)
      /\ files \in [Paths -> NotBound \cup Plugins] /\ p \notin NotBound
  BY StepFacts
<1>1. CASE Advances(p, [plugin[p] EXCEPT !.pc = "running", !.accept = "check"])
  <2> DEFINE r == [plugin[p] EXCEPT !.pc = "running", !.accept = "check"]
  <2>1. r \in Records
    BY <1>1, <1>0 DEF Records, Pcs
  <2>2. /\ r.pc = "running" /\ r.open = old.open /\ r.accept = "check"
        /\ r.backlog = old.backlog /\ r.stop = old.stop /\ r.handle = old.handle
        /\ r.initialized = old.initialized /\ r.bridgeSet = old.bridgeSet /\ r.crossed = old.crossed
    BY <1>1, <1>0 DEF Records
  <2>3. Advances(p, r) /\ UNCHANGED files
    BY <1>1 DEF ControlListen
  <2> HIDE DEF r
  <2>4. Sound(p, r, files)
    BY <1>1, <2>2, <1>0 DEF ControlListen, Loaded, Sound, HoldsByPc, Undisturbed, HasMedia,
                   HasControl, Serving, MayHaveControl, MayHaveBackend, MayHaveBridge, Stopping
  <2> QED BY <2>1, <2>3, <2>4, AdvancesSound
<1>2. CASE Advances(p, [plugin[p] EXCEPT !.pc = "cleanup"])
  <2> DEFINE r == [plugin[p] EXCEPT !.pc = "cleanup"]
  <2>1. r \in Records
    BY <1>2, <1>0 DEF Records, Pcs
  <2>2. /\ r.pc = "cleanup" /\ r.open = old.open /\ r.accept = old.accept
        /\ r.backlog = old.backlog /\ r.stop = old.stop /\ r.handle = old.handle
        /\ r.initialized = old.initialized /\ r.bridgeSet = old.bridgeSet /\ r.crossed = old.crossed
    BY <1>2, <1>0 DEF Records
  <2>3. Advances(p, r) /\ UNCHANGED files
    BY <1>2 DEF ControlListen
  <2> HIDE DEF r
  <2>4. Sound(p, r, files)
    BY <1>2, <2>2, <1>0 DEF ControlListen, Loaded, Sound, HoldsByPc, Undisturbed, HasMedia,
                   HasControl, Serving, MayHaveControl, MayHaveBackend, MayHaveBridge, Stopping
  <2> QED BY <2>1, <2>3, <2>4, AdvancesSound
<1> QED BY <1>1, <1>2 DEF ControlListen

\* A failed start gives the control path back.
LEMMA CleanupControlSound ==
    ASSUME LifecycleInv, NEW p \in Plugins, CleanupControl(p)
    PROVE  LifecycleInv'
<1> DEFINE old == plugin[p]
<1>0. /\ old \in Records /\ Sound(p, old, files)
      /\ files \in [Paths -> NotBound \cup Plugins] /\ p \notin NotBound
  BY StepFacts
<1> DEFINE r == [plugin[p] EXCEPT !.pc = "cleanup media"]
<1>1. r \in Records
  BY <1>0 DEF Records, Pcs
<1>2. /\ r.pc = "cleanup media" /\ r.open = old.open /\ r.accept = old.accept
      /\ r.backlog = old.backlog /\ r.stop = old.stop /\ r.handle = old.handle
      /\ r.initialized = old.initialized /\ r.bridgeSet = old.bridgeSet /\ r.crossed = old.crossed
  BY <1>0 DEF Records
<1>3. Touches(p, r)
  BY DEF CleanupControl
<1> HIDE DEF r
<1>4. files' \in [Paths -> NotBound \cup Plugins]
      /\ \A path \in Paths : files'[path] \in {files[path], p} \cup NotBound
  BY <1>0 DEF CleanupControl, NotBound, Unlinked
<1>5. Sound(p, r, files')
  BY <1>2, <1>0 DEF CleanupControl, NotBound, Unlinked, Sound, HoldsByPc, Undisturbed, HasMedia,
                 HasControl, Serving, MayHaveControl, MayHaveBackend, MayHaveBridge, Stopping
<1> QED BY <1>1, <1>3, <1>4, <1>5, TouchesSound

\* A failed start gives the media path back.
LEMMA CleanupMediaSound ==
    ASSUME LifecycleInv, NEW p \in Plugins, CleanupMedia(p)
    PROVE  LifecycleInv'
<1> DEFINE old == plugin[p]
<1>0. /\ old \in Records /\ Sound(p, old, files)
      /\ files \in [Paths -> NotBound \cup Plugins] /\ p \notin NotBound
  BY StepFacts
<1> DEFINE r == [plugin[p] EXCEPT !.pc = "cleanup backend", !.open = @ \ {"media"},
                             !.bridgeSet = FALSE]
<1>1. r \in Records
  BY <1>0 DEF Records, Pcs
<1>2. /\ r.pc = "cleanup backend" /\ r.open = (old.open \ {"media"}) /\ r.accept = old.accept
      /\ r.backlog = old.backlog /\ r.stop = old.stop /\ r.handle = old.handle
      /\ r.initialized = old.initialized /\ r.bridgeSet = FALSE /\ r.crossed = old.crossed
  BY <1>0 DEF Records
<1>3. Touches(p, r)
  BY DEF CleanupMedia
<1> HIDE DEF r
<1>4. files' \in [Paths -> NotBound \cup Plugins]
      /\ \A path \in Paths : files'[path] \in {files[path], p} \cup NotBound
  BY <1>0 DEF CleanupMedia, NotBound, Unlinked
<1>5. Sound(p, r, files')
  BY <1>2, <1>0 DEF CleanupMedia, NotBound, Unlinked, Sound, HoldsByPc, Undisturbed, HasMedia,
                 HasControl, Serving, MayHaveControl, MayHaveBackend, MayHaveBridge, Stopping
<1> QED BY <1>1, <1>3, <1>4, <1>5, TouchesSound

\* After the last step of a failed start nothing is held.
LEMMA CleanupBackendSound ==
    ASSUME LifecycleInv, NEW p \in Plugins, CleanupBackend(p)
    PROVE  LifecycleInv'
<1> DEFINE old == plugin[p]
<1>0. /\ old \in Records /\ Sound(p, old, files)
      /\ files \in [Paths -> NotBound \cup Plugins] /\ p \notin NotBound
  BY StepFacts
<1> DEFINE r == [plugin[p] EXCEPT !.pc = "unloaded", !.open = @ \ {"control"},
                             !.initialized = FALSE, !.handle = FALSE]
<1>1. r \in Records
  BY <1>0 DEF Records, Pcs
<1>2. /\ r.pc = "unloaded" /\ r.open = (old.open \ {"control"}) /\ r.accept = old.accept
      /\ r.backlog = old.backlog /\ r.stop = old.stop /\ r.handle = FALSE
      /\ r.initialized = FALSE /\ r.bridgeSet = old.bridgeSet /\ r.crossed = old.crossed
  BY <1>0 DEF Records
<1>3. Touches(p, r)
  BY DEF CleanupBackend
<1> HIDE DEF r
<1>4. files' \in [Paths -> NotBound \cup Plugins]
      /\ \A path \in Paths : files'[path] \in {files[path], p} \cup NotBound
  BY <1>0 DEF CleanupBackend, NotBound, Closed
<1>5. Sound(p, r, files')
  BY <1>2, <1>0 DEF CleanupBackend, NotBound, Closed, Sound, HoldsByPc, Undisturbed, HasMedia,
                 HasControl, Serving, MayHaveControl, MayHaveBackend, MayHaveBridge, Stopping
<1> QED BY <1>1, <1>3, <1>4, <1>5, TouchesSound

\* Unloading begins with the stop request.
LEMMA ts3plugin_shutdownSound ==
    ASSUME LifecycleInv, NEW p \in Plugins, ts3plugin_shutdown(p)
    PROVE  LifecycleInv'
<1> DEFINE old == plugin[p]
<1>0. /\ old \in Records /\ Sound(p, old, files)
      /\ files \in [Paths -> NotBound \cup Plugins] /\ p \notin NotBound
  BY StepFacts
<1> DEFINE r == [plugin[p] EXCEPT !.pc = "wake", !.bridgeSet = FALSE, !.stop = TRUE]
<1>1. r \in Records
  BY <1>0 DEF Records, Pcs
<1>2. /\ r.pc = "wake" /\ r.open = old.open /\ r.accept = old.accept
      /\ r.backlog = old.backlog /\ r.stop = TRUE /\ r.handle = old.handle
      /\ r.initialized = old.initialized /\ r.bridgeSet = FALSE /\ r.crossed = old.crossed
  BY <1>0 DEF Records
<1>3. Advances(p, r) /\ UNCHANGED files
  BY DEF ts3plugin_shutdown
<1> HIDE DEF r
<1>4. Sound(p, r, files)
  BY <1>2, <1>0 DEF ts3plugin_shutdown, Loaded, Sound, HoldsByPc, Undisturbed, HasMedia,
                 HasControl, Serving, MayHaveControl, MayHaveBackend, MayHaveBridge, Stopping
<1> QED BY <1>1, <1>3, <1>4, AdvancesSound

\* A joined accept thread is done.
LEMMA JoinSound ==
    ASSUME LifecycleInv, NEW p \in Plugins, Join(p)
    PROVE  LifecycleInv'
<1> DEFINE old == plugin[p]
<1>0. /\ old \in Records /\ Sound(p, old, files)
      /\ files \in [Paths -> NotBound \cup Plugins] /\ p \notin NotBound
  BY StepFacts
<1> DEFINE r == [plugin[p] EXCEPT !.pc = "close"]
<1>1. r \in Records
  BY <1>0 DEF Records, Pcs
<1>2. /\ r.pc = "close" /\ r.open = old.open /\ r.accept = old.accept
      /\ r.backlog = old.backlog /\ r.stop = old.stop /\ r.handle = old.handle
      /\ r.initialized = old.initialized /\ r.bridgeSet = old.bridgeSet /\ r.crossed = old.crossed
  BY <1>0 DEF Records
<1>3. Advances(p, r) /\ UNCHANGED files
  BY DEF Join
<1> HIDE DEF r
<1>4. Sound(p, r, files)
  BY <1>2, <1>0 DEF Join, Loaded, Sound, HoldsByPc, Undisturbed, HasMedia,
                 HasControl, Serving, MayHaveControl, MayHaveBackend, MayHaveBridge, Stopping
<1> QED BY <1>1, <1>3, <1>4, AdvancesSound

\* Closing the control socket ends its backlog.
LEMMA CloseControlSound ==
    ASSUME LifecycleInv, NEW p \in Plugins, CloseControl(p)
    PROVE  LifecycleInv'
<1> DEFINE old == plugin[p]
<1>0. /\ old \in Records /\ Sound(p, old, files)
      /\ files \in [Paths -> NotBound \cup Plugins] /\ p \notin NotBound
  BY StepFacts
<1> DEFINE r == [plugin[p] EXCEPT !.pc = "stop backend", !.open = @ \ {"control"},
                             !.accept = "off", !.backlog = 0]
<1>1. r \in Records
  BY <1>0 DEF Records, Pcs
<1>2. /\ r.pc = "stop backend" /\ r.open = (old.open \ {"control"}) /\ r.accept = "off"
      /\ r.backlog = 0 /\ r.stop = old.stop /\ r.handle = old.handle
      /\ r.initialized = old.initialized /\ r.bridgeSet = old.bridgeSet /\ r.crossed = old.crossed
  BY <1>0 DEF Records
<1>3. Touches(p, r)
  BY DEF CloseControl
<1> HIDE DEF r
<1>4. files' \in [Paths -> NotBound \cup Plugins]
      /\ \A path \in Paths : files'[path] \in {files[path], p} \cup NotBound
  BY <1>0 DEF CloseControl, NotBound, Unlinked
<1>5. Sound(p, r, files')
  BY <1>2, <1>0 DEF CloseControl, NotBound, Unlinked, Sound, HoldsByPc, Undisturbed, HasMedia,
                 HasControl, Serving, MayHaveControl, MayHaveBackend, MayHaveBridge, Stopping
<1> QED BY <1>1, <1>3, <1>4, <1>5, TouchesSound

\* The backend holds no path.
LEMMA StopBackendSound ==
    ASSUME LifecycleInv, NEW p \in Plugins, StopBackend(p)
    PROVE  LifecycleInv'
<1> DEFINE old == plugin[p]
<1>0. /\ old \in Records /\ Sound(p, old, files)
      /\ files \in [Paths -> NotBound \cup Plugins] /\ p \notin NotBound
  BY StepFacts
<1> DEFINE r == [plugin[p] EXCEPT !.pc = "stop media", !.initialized = FALSE]
<1>1. r \in Records
  BY <1>0 DEF Records, Pcs
<1>2. /\ r.pc = "stop media" /\ r.open = old.open /\ r.accept = old.accept
      /\ r.backlog = old.backlog /\ r.stop = old.stop /\ r.handle = old.handle
      /\ r.initialized = FALSE /\ r.bridgeSet = old.bridgeSet /\ r.crossed = old.crossed
  BY <1>0 DEF Records
<1>3. Advances(p, r) /\ UNCHANGED files
  BY DEF StopBackend
<1> HIDE DEF r
<1>4. Sound(p, r, files)
  BY <1>2, <1>0 DEF StopBackend, Loaded, Sound, HoldsByPc, Undisturbed, HasMedia,
                 HasControl, Serving, MayHaveControl, MayHaveBackend, MayHaveBridge, Stopping
<1> QED BY <1>1, <1>3, <1>4, AdvancesSound

\* After the last step of a stop nothing is held.
LEMMA StopMediaSound ==
    ASSUME LifecycleInv, NEW p \in Plugins, StopMedia(p)
    PROVE  LifecycleInv'
<1> DEFINE old == plugin[p]
<1>0. /\ old \in Records /\ Sound(p, old, files)
      /\ files \in [Paths -> NotBound \cup Plugins] /\ p \notin NotBound
  BY StepFacts
<1> DEFINE r == [plugin[p] EXCEPT !.pc = "unloaded", !.open = @ \ {"media"}, !.stop = FALSE,
                             !.handle = FALSE]
<1>1. r \in Records
  BY <1>0 DEF Records, Pcs
<1>2. /\ r.pc = "unloaded" /\ r.open = (old.open \ {"media"}) /\ r.accept = old.accept
      /\ r.backlog = old.backlog /\ r.stop = FALSE /\ r.handle = FALSE
      /\ r.initialized = old.initialized /\ r.bridgeSet = old.bridgeSet /\ r.crossed = old.crossed
  BY <1>0 DEF Records
<1>3. Touches(p, r)
  BY DEF StopMedia
<1> HIDE DEF r
<1>4. files' \in [Paths -> NotBound \cup Plugins]
      /\ \A path \in Paths : files'[path] \in {files[path], p} \cup NotBound
  BY <1>0 DEF StopMedia, NotBound, Unlinked
<1>5. Sound(p, r, files')
  BY <1>2, <1>0 DEF StopMedia, NotBound, Unlinked, Sound, HoldsByPc, Undisturbed, HasMedia,
                 HasControl, Serving, MayHaveControl, MayHaveBackend, MayHaveBridge, Stopping
<1> QED BY <1>1, <1>3, <1>4, <1>5, TouchesSound

\* The sockets of a killed client leave files of nobody.
LEMMA KilledSound ==
    ASSUME LifecycleInv, NEW p \in Plugins, Killed(p)
    PROVE  LifecycleInv'
<1> DEFINE old == plugin[p]
<1>0. /\ old \in Records /\ Sound(p, old, files)
      /\ files \in [Paths -> NotBound \cup Plugins] /\ p \notin NotBound
  BY StepFacts
<1> DEFINE r == Unloaded
<1>1. r \in Records
  BY <1>0 DEF Records, Pcs, Unloaded
<1>2. /\ r.pc = "unloaded" /\ r.open = {} /\ r.accept = "off"
      /\ r.backlog = 0 /\ r.stop = FALSE /\ r.handle = FALSE
      /\ r.initialized = FALSE /\ r.bridgeSet = FALSE /\ r.crossed = FALSE
  BY <1>0 DEF Records, Unloaded
<1>3. Touches(p, r)
  BY DEF Killed, Unloaded
<1> HIDE DEF r
<1>4. files' \in [Paths -> NotBound \cup Plugins]
      /\ \A path \in Paths : files'[path] \in {files[path], p} \cup NotBound
  BY <1>0 DEF Killed, NotBound, Closed
<1>5. Sound(p, r, files')
  BY <1>2, <1>0 DEF Killed, NotBound, Closed, Sound, HoldsByPc, Undisturbed, HasMedia,
                 HasControl, Serving, MayHaveControl, MayHaveBackend, MayHaveBridge, Stopping
<1> QED BY <1>1, <1>3, <1>4, <1>5, TouchesSound

\* One more connection waits.
LEMMA CommandSound ==
    ASSUME LifecycleInv, NEW p \in Plugins, Command(p)
    PROVE  LifecycleInv'
<1> DEFINE old == plugin[p]
<1>0. /\ old \in Records /\ Sound(p, old, files)
      /\ files \in [Paths -> NotBound \cup Plugins] /\ p \notin NotBound
  BY StepFacts
<1> DEFINE r == [plugin[p] EXCEPT !.backlog = @ + 1]
<1>a. old.backlog + 1 \in Nat /\ old.backlog + 1 > 0 /\ old.accept # "off"
  BY <1>0 DEF Records, Command, Listens
<1>1. r \in Records
  BY <1>0, <1>a DEF Records
<1>2. /\ r.pc = old.pc /\ r.open = old.open /\ r.accept = old.accept
      /\ r.backlog = old.backlog + 1 /\ r.stop = old.stop /\ r.handle = old.handle
      /\ r.initialized = old.initialized /\ r.bridgeSet = old.bridgeSet /\ r.crossed = old.crossed
  BY <1>0 DEF Records
<1>3. Advances(p, r) /\ UNCHANGED files
  BY DEF Command
<1> HIDE DEF r
<1>4. Sound(p, r, files)
  BY <1>2, <1>a, <1>0 DEF Sound, HoldsByPc, Undisturbed, HasMedia,
                 HasControl, Serving, MayHaveControl, MayHaveBackend, MayHaveBridge, Stopping
<1> QED BY <1>1, <1>3, <1>4, AdvancesSound

\* A thread that was asked to stop does not accept again.
LEMMA AcceptLoopSound ==
    ASSUME LifecycleInv, NEW p \in Plugins, AcceptConnections(p)
    PROVE  LifecycleInv'
<1> DEFINE old == plugin[p]
<1>0. /\ old \in Records /\ Sound(p, old, files)
      /\ files \in [Paths -> NotBound \cup Plugins] /\ p \notin NotBound
  BY StepFacts
<1>1. CASE /\ plugin[p].accept = "check"
            /\ Advances(p, [plugin[p] EXCEPT !.accept = IF plugin[p].stop THEN "done" ELSE "accept"])
  <2> DEFINE r == [plugin[p] EXCEPT !.accept = IF plugin[p].stop THEN "done" ELSE "accept"]
  <2>1. r \in Records
    BY <1>1, <1>0 DEF Records, Pcs
  <2>2. /\ r.pc = old.pc /\ r.open = old.open /\ r.accept = (IF old.stop THEN "done" ELSE "accept")
        /\ r.backlog = old.backlog /\ r.stop = old.stop /\ r.handle = old.handle
        /\ r.initialized = old.initialized /\ r.bridgeSet = old.bridgeSet /\ r.crossed = old.crossed
    BY <1>1, <1>0 DEF Records
  <2>3. Advances(p, r) /\ UNCHANGED files
    BY <1>1 DEF AcceptConnections
  <2> HIDE DEF r
  <2>4. Sound(p, r, files)
    BY <1>1, <2>2, <1>0 DEF AcceptConnections, Loaded, Sound, HoldsByPc, Undisturbed, HasMedia,
                   HasControl, Serving, MayHaveControl, MayHaveBackend, MayHaveBridge, Stopping
  <2> QED BY <2>1, <2>3, <2>4, AdvancesSound
<1>2. CASE /\ plugin[p].accept = "accept" /\ plugin[p].backlog > 0
            /\ Advances(p, [plugin[p] EXCEPT !.accept = "check", !.backlog = @ - 1])
  <2> DEFINE r == [plugin[p] EXCEPT !.accept = "check", !.backlog = @ - 1]
  <2>a. old.backlog - 1 \in Nat
    BY <1>2, <1>0 DEF Records
  <2>1. r \in Records
    BY <1>0, <2>a DEF Records
  <2>2. /\ r.pc = old.pc /\ r.open = old.open /\ r.accept = "check"
        /\ r.backlog = old.backlog - 1 /\ r.stop = old.stop /\ r.handle = old.handle
        /\ r.initialized = old.initialized /\ r.bridgeSet = old.bridgeSet /\ r.crossed = old.crossed
    BY <1>2, <1>0 DEF Records
  <2>3. Advances(p, r) /\ UNCHANGED files
    BY <1>2 DEF AcceptConnections
  <2> HIDE DEF r
  <2>4. Sound(p, r, files)
    BY <1>2, <2>2, <1>0 DEF AcceptConnections, Loaded, Sound, HoldsByPc, Undisturbed, HasMedia,
                   HasControl, Serving, MayHaveControl, MayHaveBackend, MayHaveBridge, Stopping
  <2> QED BY <2>1, <2>3, <2>4, AdvancesSound
<1> QED BY <1>1, <1>2 DEF AcceptConnections

\* The connection that wakes p's accept thread goes to whoever has the control
\* path: to p itself, unless p has been crossed.
LEMMA WakeSound ==
    ASSUME LifecycleInv, NEW p \in Plugins, Wake(p)
    PROVE  LifecycleInv'
<1> DEFINE old == plugin[p]
           joins == [plugin EXCEPT ![p].pc = "join"]
           woken == files["control"]
<1>0. /\ old \in Records /\ Sound(p, old, files) /\ old.pc = "wake" /\ UNCHANGED files
      /\ files \in [Paths -> NotBound \cup Plugins] /\ p \notin NotBound
  BY StepFacts DEF Wake
<1>1. plugin \in [Plugins -> Records]
  BY DEF LifecycleInv, LifecycleTypeOK, Records
<1>2. old.accept # "off" /\ (~old.crossed => woken = p)
  BY <1>0 DEF Sound, HoldsByPc, Undisturbed, HasMedia, HasControl, Serving
<1>3. CASE woken = p
  <2> DEFINE r == [old EXCEPT !.pc = "join", !.backlog = @ + 1]
  <2>a. Listens(woken) /\ old.backlog + 1 \in Nat /\ old.backlog + 1 > 0
    BY <1>0, <1>2, <1>3 DEF Listens, Records
  <2>1. r \in Records
    BY <1>0, <2>a DEF Records, Pcs
  <2>2. /\ r.pc = "join" /\ r.open = old.open /\ r.accept = old.accept
        /\ r.backlog = old.backlog + 1 /\ r.stop = old.stop /\ r.handle = old.handle
        /\ r.initialized = old.initialized /\ r.bridgeSet = old.bridgeSet /\ r.crossed = old.crossed
    BY <1>0 DEF Records
  <2>3. Advances(p, r)
    BY <1>1, <1>3, <2>a DEF Wake, Advances, Records
  <2> HIDE DEF r
  <2>4. Sound(p, r, files)
    BY <1>0, <1>2, <2>2, <2>a DEF Sound, HoldsByPc, Undisturbed, HasMedia, HasControl, Serving,
                 MayHaveControl, MayHaveBackend, MayHaveBridge, Stopping
  <2> QED BY <1>0, <2>1, <2>3, <2>4, AdvancesSound
<1>4. CASE woken # p
  <2>1. PICK r \in Records : r = [old EXCEPT !.pc = "join"]
    BY <1>0 DEF Records, Pcs
  <2>2. /\ r.pc = "join" /\ r.open = old.open /\ r.accept = old.accept
        /\ r.backlog = old.backlog /\ r.stop = old.stop /\ r.handle = old.handle
        /\ r.initialized = old.initialized /\ r.bridgeSet = old.bridgeSet /\ r.crossed = TRUE
    BY <1>0, <1>2, <1>4, <2>1 DEF Records
  <2>3. Sound(p, r, files)
    BY <1>0, <1>2, <2>2 DEF Sound, HoldsByPc, Undisturbed, HasMedia, HasControl, Serving,
                 MayHaveControl, MayHaveBackend, MayHaveBridge, Stopping
  <2>4. joins \in [Plugins -> Records] /\ joins[p] = r
        /\ \A q \in Plugins \ {p} : joins[q] = plugin[q]
    BY <1>1, <2>1
  <2>5. CASE ~Listens(woken)
    <3>1. plugin' = joins
      BY <2>5 DEF Wake
    <3> QED BY <1>0, <2>1, <2>3, <2>4, <3>1, AdvancesSound DEF Advances
  <2>6. CASE Listens(woken)
    <3>1. PICK q \in Plugins : q = woken /\ q # p
      BY <1>4, <2>6 DEF Listens
    <3>2. plugin' = [joins EXCEPT ![q].backlog = @ + 1] /\ plugin[q].accept # "off"
      BY <2>6, <3>1 DEF Wake, Listens
    <3>3. PICK s \in Records : s = [plugin[q] EXCEPT !.backlog = @ + 1]
      <4>1. plugin[q].backlog + 1 \in Nat /\ plugin[q] \in Records
        BY <1>1 DEF Records
      <4> QED BY <4>1 DEF Records
    <3>4. /\ s.pc = plugin[q].pc /\ s.open = plugin[q].open /\ s.accept = plugin[q].accept
          /\ s.backlog = plugin[q].backlog + 1 /\ s.stop = plugin[q].stop
          /\ s.handle = plugin[q].handle /\ s.initialized = plugin[q].initialized
          /\ s.bridgeSet = plugin[q].bridgeSet /\ s.crossed = plugin[q].crossed
          /\ plugin[q].backlog \in Nat /\ plugin[q].backlog + 1 > 0
      BY <1>1, <3>3 DEF Records
    <3>5. Sound(q, plugin[q], files)
      BY DEF LifecycleInv
    <3>6. Sound(q, s, files)
      BY <3>2, <3>4, <3>5 DEF Sound, HoldsByPc, Undisturbed
    <3>7. plugin' \in [Plugins -> Records] /\ plugin'[p] = r /\ plugin'[q] = s
          /\ \A u \in Plugins \ {p, q} : plugin'[u] = plugin[u]
      BY <2>1, <2>4, <3>1, <3>2, <3>3
    <3>8. LifecycleTypeOK'
      BY <1>0, <3>7 DEF LifecycleTypeOK, Records
    <3>9. \A u \in Plugins : Sound(u, plugin'[u], files')
      BY <1>0, <2>3, <3>6, <3>7 DEF LifecycleInv
    <3> QED BY <3>8, <3>9 DEF LifecycleInv
  <2> QED BY <2>5, <2>6
<1> QED BY <1>3, <1>4

\* The invariant is inductive.
LEMMA LifecycleStep == LifecycleInv /\ [LifecycleNext]_lifecycleVars => LifecycleInv'
<1> SUFFICES ASSUME LifecycleInv, [LifecycleNext]_lifecycleVars PROVE LifecycleInv'
  OBVIOUS
<1>1. CASE UNCHANGED lifecycleVars
  BY <1>1 DEF lifecycleVars, LifecycleInv, LifecycleTypeOK, Sound, Undisturbed
<1>2. ASSUME NEW p \in Plugins, Loading(p) PROVE LifecycleInv'
  BY <1>2, ts3plugin_initSound, MediaUnlinkSound, MediaBindSound, MediaListenSound,
     InitializeSound, ControlUnlinkSound, ControlBindSound, ControlListenSound,
     CleanupControlSound, CleanupMediaSound, CleanupBackendSound DEF Loading
<1>3. ASSUME NEW p \in Plugins, Unloading(p) PROVE LifecycleInv'
  BY <1>3, ts3plugin_shutdownSound, WakeSound, JoinSound, CloseControlSound,
     StopBackendSound, StopMediaSound DEF Unloading
<1>4. ASSUME NEW p \in Plugins, AcceptConnections(p) \/ Command(p) \/ Killed(p) PROVE LifecycleInv'
  BY <1>4, AcceptLoopSound, CommandSound, KilledSound
<1> QED BY <1>1, <1>2, <1>3, <1>4 DEF LifecycleNext

\* The invariant holds throughout.
THEOREM LifecycleInvariant == LifecycleSpec => []LifecycleInv
BY InitSound, LifecycleStep, PTL DEF LifecycleSpec

\* plugin_exports.cpp: a plugin that failed to start, or was stopped, leaves
\* nothing behind that is its own.
THEOREM UnloadedLeavesNothingTheorem == LifecycleSpec => []UnloadedLeavesNothing
<1>1. LifecycleInv => UnloadedLeavesNothing
  <2> SUFFICES ASSUME LifecycleInv, NEW p \in Plugins, plugin[p].pc = "unloaded"
               PROVE  /\ plugin[p].open = {} /\ plugin[p].accept = "off" /\ plugin[p].backlog = 0
                      /\ ~plugin[p].handle /\ ~plugin[p].initialized /\ ~plugin[p].bridgeSet
                      /\ \A path \in Paths : files[path] # p
    BY DEF UnloadedLeavesNothing, Loaded
  <2>1. PICK r \in Records : r = plugin[p] /\ Sound(p, r, files)
    BY StepFacts
  <2>2. /\ r.accept = "off" /\ r.backlog = 0 /\ ~r.handle /\ ~r.initialized /\ ~r.bridgeSet
        /\ "media" \notin r.open /\ "control" \notin r.open
    BY <2>1 DEF Records, Sound, HoldsByPc, HasMedia, HasControl, Serving, MayHaveControl,
                MayHaveBackend, MayHaveBridge, Stopping
  <2>3. r.open = {}
    BY <2>1, <2>2 DEF Records
  <2> QED BY <2>1, <2>2, <2>3 DEF Sound
<1> QED BY <1>1, LifecycleInvariant, PTL

\* socket_server.cpp: sockets left behind are replaced.
THEOREM LeftoversAreReplacedTheorem == LifecycleSpec => []LeftoversAreReplaced
<1>1. LifecycleInv => LeftoversAreReplaced
  BY DEF LifecycleInv, Sound, Undisturbed, LeftoversAreReplaced
<1> QED BY <1>1, LifecycleInvariant, PTL

\* A plugin that runs is reached at both its paths.
THEOREM RunningIsReachedTheorem == LifecycleSpec => []RunningIsReached
<1>1. LifecycleInv => RunningIsReached
  BY DEF LifecycleInv, Sound, HoldsByPc, Undisturbed, RunningIsReached, HasMedia, HasControl,
         Serving
<1> QED BY <1>1, LifecycleInvariant, PTL

\* SocketBridgeServer::stop: the accept thread that is joined is woken.
THEOREM StopWakesAcceptTheorem == LifecycleSpec => []StopWakesAccept
<1>1. LifecycleInv => StopWakesAccept
  BY DEF LifecycleInv, Sound, Undisturbed, StopWakesAccept
<1> QED BY <1>1, LifecycleInvariant, PTL

--------------------------------------------------------------------------------
(* The command that sends a file.  What makes its success mean something is    *)
(* the order of things: the samples are in the queue, in the socket and in the *)
(* capture thread's hands in the order of the file, and what went wrong with   *)
(* one of them is in front of the answer to the stop.                           *)

Has(frames, frame) == \E i \in DOMAIN frames : frames[i] = frame

\* The frame is there, with no error in front of it.
Decides(frames, frame) ==
    \E i \in DOMAIN frames :
        frames[i] = frame /\ \A j \in DOMAIN frames : j < i => frames[j] # "error"

Opening == {"file", "decode", "reap", "connect"}

\* A file is read completely before the command connects.
ReadingInv ==
    /\ sender.at \in Connected \cup {"connect"} => sender.has = FileChunks
    /\ sender.at = "reap" => sender.has = decoder.written
    /\ sender.at = "decode" => sender.has <= decoder.written
    /\ decoder.is = "ended" => decoder.written = FileChunks
    /\ sender.at = "file" => sender.has = 0
    /\ sender.at = "reap" => decoder.is # "runs"
    /\ sender.at \in Opening \cup {"clear", "cleared", "start", "started"} => sender.sent = 0
    /\ sender.at = "chunk" => sender.sent < sender.has
    /\ sender.at \in {"stop", "stopped"} => sender.sent = sender.has
    /\ sender.at # "idle" => sender.said = "nothing"

\* Without a bridge that serves it a command has nothing under way.
ServedInv ==
    /\ served.at = "none" => served = Apart
    /\ sender.at \in Opening =>
         served.at = "none" /\ toSender = <<>> /\ toBridge = <<>> /\ played = <<>>
    /\ sender.at # "idle" /\ served.at # "serves" => ~served.active /\ toBridge = <<>>
    /\ sender.at \in Connected => served.at # "none"

Whole == Len(played) = FileChunks /\ \A i \in 1..FileChunks : played[i] = i

\* The first answer to the stop that the command can meet is true.
VerdictInv ==
    /\ sender.at # "idle" =>
         /\ ~Decides(toSender, "inactive")
         /\ Decides(toSender, "drained") =>
              sender.at = "stopped" /\ Whole /\ ~served.active /\ toBridge = <<>>
    /\ sender.said \in {"drained", "inactive"} =>
         sender.said = "drained" /\ Whole /\ ~served.active /\ toBridge = <<>>

Untouched == ~served.active /\ served.queue = <<>> /\ played = <<>>

\* p, q and the requests b are the chunks 1 to sent, in this order, with the stops
\* behind them.
Ordered(p, q, b, sent, stops) ==
    /\ Len(p) + Len(q) + Len(b) = sent + stops
    /\ \A i \in 1..Len(p) : p[i] = i
    /\ \A i \in 1..Len(q) : q[i] = Len(p) + i
    /\ \A i \in 1..Len(b) :
         b[i] = IF Len(p) + Len(q) + i <= sent THEN Request("chunk", Len(p) + Len(q) + i)
                                               ELSE Request("stop", 0)

\* The chunks sent so far, in order: played, queued, and in the socket, with the
\* stop behind them if it was sent.
InOrder(stops) == Ordered(played, served.queue, toBridge, sender.sent, stops)

Streaming(stops) == served.active /\ ~served.stopping /\ InOrder(stops)

\* As long as nothing went wrong, what is under way at each stage of the command.
PipelineInv ==
    sender.at \in Connected /\ served.at = "serves" /\ ~Has(toSender, "error") =>
        /\ sender.at = "clear" => Untouched /\ toBridge = <<>> /\ ~Has(toSender, "cleared")
        /\ sender.at = "cleared" =>
             /\ Untouched
             /\ toBridge # <<>> => toBridge = <<Request("clear", 0)>> /\ ~Has(toSender, "cleared")
        /\ sender.at = "start" => Untouched /\ toBridge = <<>>
        /\ sender.at \in {"clear", "cleared", "start"} => ~Has(toSender, "started")
        /\ sender.at = "started" =>
             \/ toBridge = <<Request("start", 0)>> /\ Untouched /\ ~Has(toSender, "started")
             \/ toBridge = <<>> /\ Streaming(0)
        /\ sender.at \in {"chunk", "ready", "stop"} => Streaming(0)
        /\ sender.at = "stopped" =>
             \/ toBridge # <<>> /\ Streaming(1)
             \/ toBridge = <<>> /\ served.active /\ served.stopping /\ InOrder(0)
             \/ toBridge = <<>> /\ ~served.active

SentInv == ReadingInv /\ ServedInv /\ VerdictInv /\ PipelineInv

\* What the records of a command that has begun, ended, or lost its bridge look like.
LEMMA RestTypes ==
    /\ NotSending \in SenderStates /\ NoDecoder \in DecoderStates
    /\ Apart \in ServedStates /\ QueueOK(Apart)
    /\ <<>> \in Seq(RequestTypes) /\ <<>> \in Seq(FrameTypes) /\ <<>> \in Seq(Chunk)
<1>1. <<>> \in Seq(Chunk) /\ 0 \in 0..FileChunks /\ QueuedChunks \in Nat
  BY MediaClientAssumption
<1>2. NotSending \in SenderStates
  BY <1>1 DEF NotSending, SenderStates, Connected
<1>3. NoDecoder \in DecoderStates
  BY <1>1 DEF NoDecoder, DecoderStates
<1>4. Apart \in ServedStates /\ QueueOK(Apart)
  BY <1>1 DEF Apart, ServedStates, QueueOK
<1>5. <<>> \in Seq(RequestTypes) /\ <<>> \in Seq(FrameTypes)
  OBVIOUS
<1> QED BY <1>1, <1>2, <1>3, <1>4, <1>5

\* Reading the file keeps the types.
LEMMA ReadingFileType ==
    ASSUME MediaClientTypeOK,
           \/ \E clear \in BOOLEAN : SendBegins(clear)
           \/ ReadsWav \/ ForksDecoder \/ DecoderWrites \/ DecoderEnds \/ ReadsDecoded
           \/ ReapsDecoder
    PROVE  MediaClientTypeOK'
<1>1. /\ sender \in SenderStates /\ decoder \in DecoderStates /\ FileChunks \in Nat \ {0}
      /\ toBridge \in Seq(RequestTypes) /\ toSender \in Seq(FrameTypes)
      /\ served \in ServedStates /\ QueueOK(served) /\ played \in Seq(Chunk)
  BY MediaClientAssumption DEF MediaClientTypeOK
<1>2. ASSUME sender' \in SenderStates, decoder' \in DecoderStates, UNCHANGED served,
             toBridge' \in Seq(RequestTypes), toSender' \in Seq(FrameTypes),
             played' \in Seq(Chunk)
      PROVE  MediaClientTypeOK'
  BY <1>1, <1>2 DEF MediaClientTypeOK, QueueOK
<1>3. ASSUME NEW clear \in BOOLEAN, SendBegins(clear) PROVE MediaClientTypeOK'
  <2>1. sender' \in SenderStates
    BY <1>3, RestTypes DEF SendBegins, SenderStates
  <2> QED BY <1>2, <1>3, <2>1, RestTypes DEF SendBegins
<1>4. CASE ReadsWav \/ ReapsDecoder
  <2>1. sender' \in SenderStates
    <3>1. FileChunks \in 0..FileChunks
      BY <1>1
    <3>2. CASE sender' = [sender EXCEPT !.at = "connect", !.has = FileChunks]
      BY <1>1, <3>1, <3>2 DEF SenderStates
    <3>3. CASE sender' = [sender EXCEPT !.at = "connect"]
      BY <1>1, <3>3 DEF SenderStates
    <3> QED BY <1>4, <3>2, <3>3 DEF ReadsWav, ReapsDecoder
  <2> QED BY <1>1, <1>2, <1>4, <2>1, RestTypes DEF ReadsWav, ReapsDecoder
<1>5. CASE ForksDecoder \/ ReadsDecoded
  <2>1. sender' \in SenderStates
    BY <1>1, <1>5 DEF ForksDecoder, Sender, ReadsDecoded, SenderStates, DecoderStates
  <2>2. decoder' \in DecoderStates
    BY <1>1, <1>5 DEF ForksDecoder, ReadsDecoded, DecoderStates
  <2> QED BY <1>1, <1>2, <1>5, <2>1, <2>2 DEF ForksDecoder, ReadsDecoded
<1>6. CASE DecoderWrites \/ DecoderEnds
  <2>1. decoder' \in DecoderStates
    BY <1>1, <1>6 DEF DecoderWrites, DecoderEnds, DecoderStates
  <2> QED BY <1>1, <1>2, <1>6, <2>1 DEF DecoderWrites, DecoderEnds
<1> QED BY <1>3, <1>4, <1>5, <1>6

\* Sending and waiting for answers keeps the types.
LEMMA SendingType ==
    ASSUME MediaClientTypeOK,
           \/ ConnectsMedia \/ SendsClear \/ SendsStart \/ SendsChunk \/ SendsStop
           \/ DrainsReady \/ FramesLate \/ WaitsForFrame \/ SendFails,
           ReadingInv
    PROVE  MediaClientTypeOK'
<1>1. /\ sender \in SenderStates /\ decoder \in DecoderStates /\ FileChunks \in Nat \ {0}
      /\ toBridge \in Seq(RequestTypes) /\ toSender \in Seq(FrameTypes)
      /\ served \in ServedStates /\ QueueOK(served) /\ played \in Seq(Chunk)
  BY MediaClientAssumption DEF MediaClientTypeOK
<1>2. ASSUME sender' \in SenderStates, decoder' \in DecoderStates,
             served' \in ServedStates, QueueOK(served'),
             toBridge' \in Seq(RequestTypes), toSender' \in Seq(FrameTypes),
             played' \in Seq(Chunk)
      PROVE  MediaClientTypeOK'
  BY <1>2 DEF MediaClientTypeOK, QueueOK
<1>3. \A at \in {"none", "serves", "refuses", "closed"} :
        [served EXCEPT !.at = at] \in ServedStates /\ QueueOK([served EXCEPT !.at = at])
  BY <1>1 DEF ServedStates, QueueOK
<1>4. CASE ConnectsMedia
  <2>1. sender' \in SenderStates
    BY <1>1, <1>4 DEF ConnectsMedia, Sender, SenderStates, Connected
  <2>2. served' \in ServedStates /\ QueueOK(served')
    BY <1>4, RestTypes DEF ConnectsMedia, ServedStates, QueueOK
  <2>3. toSender' \in Seq(FrameTypes)
    <3>1. {"hello", "status", "error"} \subseteq FrameTypes
      BY DEF FrameTypes
    <3>2. <<"hello", "status">> \in Seq(FrameTypes) /\ <<"error">> \in Seq(FrameTypes)
      BY <3>1
    <3> QED BY <1>4, <3>2 DEF ConnectsMedia
  <2> QED BY <1>1, <1>2, <1>4, <2>1, <2>2, <2>3 DEF ConnectsMedia
<1>5. ASSUME NEW request \in RequestTypes, Requested(request), sender' \in SenderStates
      PROVE  MediaClientTypeOK'
  BY <1>1, <1>2, <1>5 DEF Requested
<1>6. CASE SendsClear \/ SendsStart \/ SendsStop
  <2>1. sender' \in SenderStates
    BY <1>1, <1>6 DEF SendsClear, SendsStart, SendsStop, Sender, SenderStates, Connected
  <2>2. \A what \in {"clear", "start", "stop"} : Request(what, 0) \in RequestTypes
    BY <1>1 DEF Request, RequestTypes
  <2> QED BY <1>5, <1>6, <2>1, <2>2 DEF SendsClear, SendsStart, SendsStop
<1>7. CASE SendsChunk
  <2>1. sender.sent + 1 \in 0..FileChunks /\ sender.sent + 1 \in Chunk
    BY <1>1, <1>7 DEF SendsChunk, ReadingInv, SenderStates, Chunk
  <2>2. sender' \in SenderStates /\ Request("chunk", sender.sent + 1) \in RequestTypes
    BY <1>1, <1>7, <2>1 DEF SendsChunk, SenderStates, Connected, Request, RequestTypes
  <2> QED BY <1>5, <1>7, <2>2 DEF SendsChunk
<1>8. CASE DrainsReady \/ FramesLate
  <2>1. sender' \in SenderStates
    BY <1>1, <1>8 DEF DrainsReady, FramesLate, SenderStates, Connected
  <2>2. toSender' \in Seq(FrameTypes) /\ UNCHANGED <<decoder, toBridge, served, played>>
    <3>1. toSender # <<>> => Tail(toSender) \in Seq(FrameTypes)
      BY <1>1
    <3> QED BY <1>1, <1>8, <3>1 DEF DrainsReady, FramesLate
  <2> QED BY <1>1, <1>2, <2>1, <2>2
<1>9. CASE WaitsForFrame
  <2>1. toSender # <<>> /\ Head(toSender) \in FrameTypes /\ Tail(toSender) \in Seq(FrameTypes)
    BY <1>1, <1>9 DEF WaitsForFrame
  <2>2. sender.at \in {"cleared", "started", "stopped"}
    BY <1>9 DEF WaitsForFrame, Answers
  <2>3. sender' \in SenderStates
    <3>1. CASE Head(toSender) \notin Answers[sender.at]
      BY <1>1, <1>9, <3>1 DEF WaitsForFrame
    <3>2. CASE Head(toSender) \in Answers[sender.at] /\ sender.at \in {"cleared", "started"}
      BY <1>1, <1>9, <3>2 DEF WaitsForFrame, SenderStates, Connected
    <3>3. CASE Head(toSender) \in Answers[sender.at] /\ sender.at = "stopped"
      <4>1. Head(toSender) \in {"drained", "inactive"}
        BY <3>3 DEF Answers
      <4> QED BY <1>9, <3>3, <4>1, RestTypes DEF WaitsForFrame, SenderStates
    <3> QED BY <2>2, <3>1, <3>2, <3>3
  <2>4. served' \in ServedStates /\ QueueOK(served')
    BY <1>1, <1>3, <1>9 DEF WaitsForFrame
  <2> QED BY <1>1, <1>2, <1>9, <2>1, <2>3, <2>4 DEF WaitsForFrame
<1>10. CASE SendFails
  <2>1. sender' \in SenderStates
    BY <1>10, RestTypes DEF SendFails, SenderStates
  <2>2. served' \in ServedStates /\ QueueOK(served')
    BY <1>1, <1>3, <1>10 DEF SendFails
  <2> QED BY <1>1, <1>2, <1>10, <2>1, <2>2, RestTypes DEF SendFails
<1> QED BY <1>4, <1>6, <1>7, <1>8, <1>9, <1>10

\* What the bridge does keeps the types.
LEMMA ServingType ==
    ASSUME MediaClientTypeOK, ServedInv,
           \/ ServesStart \/ ServesChunk \/ ServesStop \/ ServesClear
           \/ PlaysChunk \/ ReportsSpeech \/ BridgeCloses \/ SeesHangUp
    PROVE  MediaClientTypeOK'
<1>1. /\ sender \in SenderStates /\ decoder \in DecoderStates
      /\ FileChunks \in Nat \ {0} /\ QueuedChunks \in Nat \ {0}
      /\ toBridge \in Seq(RequestTypes) /\ toSender \in Seq(FrameTypes)
      /\ served \in ServedStates /\ QueueOK(served) /\ played \in Seq(Chunk)
  BY MediaClientAssumption DEF MediaClientTypeOK
<1>2. ASSUME UNCHANGED <<sender, decoder>>,
             served' \in ServedStates, QueueOK(served'),
             toBridge' \in Seq(RequestTypes), toSender' \in Seq(FrameTypes),
             played' \in Seq(Chunk)
      PROVE  MediaClientTypeOK'
  BY <1>1, <1>2 DEF MediaClientTypeOK, QueueOK
<1>3. ASSUME NEW frame \in FrameTypes, Tells(frame) PROVE toSender' \in Seq(FrameTypes)
  BY <1>1, <1>3 DEF Tells
<1>4. {"started", "error", "inactive", "drained", "cleared", "speaker"} \subseteq FrameTypes
  BY DEF FrameTypes
<1>5. ASSUME NEW what, Serves(what)
      PROVE  /\ toBridge' \in Seq(RequestTypes) /\ UNCHANGED <<sender, decoder>>
             /\ Head(toBridge) \in RequestTypes /\ Head(toBridge).what = what
  BY <1>1, <1>5 DEF Serves
<1>6. /\ served.queue \in Seq(Chunk) /\ served.active \in BOOLEAN /\ served.stopping \in BOOLEAN
      /\ <<>> \in Seq(Chunk) /\ Len(<<>>) = 0
  BY <1>1 DEF ServedStates
<1>7. ASSUME NEW active \in BOOLEAN,
              served' = [served EXCEPT !.active = active, !.stopping = FALSE, !.queue = <<>>]
       PROVE  served' \in ServedStates /\ QueueOK(served')
  <2>1. served' \in ServedStates /\ ~served'.stopping /\ served'.queue = <<>>
    BY <1>1, <1>6, <1>7 DEF ServedStates
  <2> QED BY <1>1, <1>6, <2>1 DEF QueueOK
<1>8. CASE ServesStart \/ ServesClear
  <2>1. served' \in ServedStates /\ QueueOK(served')
    BY <1>1, <1>8, <1>7 DEF ServesStart, ServesClear
  <2> QED BY <1>1, <1>2, <1>3, <1>4, <1>5, <1>8, <2>1 DEF ServesStart, ServesClear
<1>9. CASE ServesChunk
  <2>1. ASSUME served.active, Len(served.queue) < QueuedChunks,
               served' = [served EXCEPT !.queue = Append(@, Head(toBridge).chunk)]
        PROVE  served' \in ServedStates /\ QueueOK(served')
    <3>1. Head(toBridge).chunk \in Chunk
      BY <1>5, <1>9 DEF ServesChunk, RequestTypes
    <3>2. /\ Append(served.queue, Head(toBridge).chunk) \in Seq(Chunk)
          /\ Len(Append(served.queue, Head(toBridge).chunk)) = Len(served.queue) + 1
          /\ Append(served.queue, Head(toBridge).chunk) # <<>>
      BY <1>6, <3>1
    <3>3. served' \in ServedStates /\ served'.queue = Append(served.queue, Head(toBridge).chunk)
          /\ served'.active
      BY <1>1, <2>1, <3>2 DEF ServedStates
    <3> QED BY <1>1, <1>6, <2>1, <3>2, <3>3 DEF QueueOK
  <2> QED BY <1>1, <1>2, <1>3, <1>4, <1>5, <1>9, <2>1 DEF ServesChunk
<1>10. CASE ServesStop
  <2>1. served' \in ServedStates /\ QueueOK(served')
    BY <1>1, <1>6, <1>10 DEF ServesStop, ServedStates, QueueOK
  <2>2. toSender' \in Seq(FrameTypes)
    BY <1>1, <1>3, <1>4, <1>10 DEF ServesStop
  <2> QED BY <1>1, <1>2, <1>5, <1>10, <2>1, <2>2 DEF ServesStop
<1>11. CASE PlaysChunk
  <2>1. /\ served.queue # <<>> /\ served.active
        /\ Head(served.queue) \in Chunk /\ Tail(served.queue) \in Seq(Chunk)
        /\ Len(Tail(served.queue)) = Len(served.queue) - 1 /\ Len(served.queue) \in Nat \ {0}
    BY <1>6, <1>11 DEF PlaysChunk
  <2>2. played' \in Seq(Chunk)
    BY <1>1, <1>11, <2>1 DEF PlaysChunk
  <2>3. CASE served.stopping /\ Len(served.queue) = 1
    <3>1. served' \in ServedStates /\ QueueOK(served')
      BY <1>11, <1>7, <2>3 DEF PlaysChunk
    <3> QED BY <1>1, <1>2, <1>3, <1>4, <1>11, <2>2, <2>3, <3>1 DEF PlaysChunk
  <2>4. CASE ~(served.stopping /\ Len(served.queue) = 1)
    <3>1. /\ served' \in ServedStates /\ served'.queue = Tail(served.queue)
          /\ served'.active = served.active /\ served'.stopping = served.stopping
      BY <1>1, <1>11, <2>1, <2>4 DEF PlaysChunk, ServedStates
    <3>2. served.stopping => Tail(served.queue) # <<>>
      <4> DEFINE rest == Tail(served.queue)
      <4>1. served.stopping => Len(rest) # 0
        BY <2>1, <2>4
      <4> HIDE DEF rest
      <4>2. rest = <<>> => Len(rest) = 0
        OBVIOUS
      <4>3. served.stopping => rest # <<>>
        BY <4>1, <4>2
      <4> QED BY <4>3 DEF rest
    <3>3. QueueOK(served')
      BY <1>1, <1>6, <2>1, <3>1, <3>2 DEF QueueOK
    <3> QED BY <1>1, <1>2, <1>11, <2>2, <2>4, <3>1, <3>3 DEF PlaysChunk
  <2> QED BY <2>3, <2>4
<1>12. CASE ReportsSpeech
  BY <1>1, <1>2, <1>3, <1>4, <1>12 DEF ReportsSpeech
<1>13. CASE BridgeCloses
  <2>1. served' \in ServedStates /\ QueueOK(served')
    BY <1>1, <1>6, <1>13, RestTypes DEF BridgeCloses, ServedStates, QueueOK
  <2>2. PICK n \in 0..Len(toSender) : toSender' = SubSeq(toSender, 1, n)
    BY <1>13 DEF BridgeCloses
  <2>3. SubSeq(toSender, 1, n) \in Seq(FrameTypes)
    BY <1>1
  <2> QED BY <1>1, <1>2, <1>13, <2>1, <2>2, <2>3, RestTypes DEF BridgeCloses
<1>14. CASE SeesHangUp
  BY <1>1, <1>2, <1>14, RestTypes DEF SeesHangUp
<1> QED BY <1>8, <1>9, <1>10, <1>11, <1>12, <1>13, <1>14

\* What one more frame, one frame less, and a connection cut short do to what a
\* command may still read.
LEMMA FramesMore ==
    ASSUME NEW frames \in Seq(FrameTypes), NEW frame \in FrameTypes
    PROVE  /\ \A g : Has(Append(frames, frame), g) <=> Has(frames, g) \/ g = frame
           /\ \A g : Decides(Append(frames, frame), g) <=>
                        Decides(frames, g) \/ (g = frame /\ ~Has(frames, "error"))
<1> DEFINE more == Append(frames, frame)
<1>1. /\ Len(frames) \in Nat /\ DOMAIN more = 1 .. Len(frames) + 1
      /\ more[Len(frames) + 1] = frame /\ \A i \in 1 .. Len(frames) : more[i] = frames[i]
      /\ DOMAIN frames = 1 .. Len(frames)
  OBVIOUS
<1> HIDE DEF more
<1>2. \A g : Has(more, g) <=> Has(frames, g) \/ g = frame
  BY <1>1 DEF Has
<1>3. ASSUME NEW g PROVE Decides(more, g) => Decides(frames, g) \/ (g = frame /\ ~Has(frames, "error"))
  BY <1>1 DEF Has, Decides
<1>4. ASSUME NEW g, Decides(frames, g) PROVE Decides(more, g)
  BY <1>1, <1>4 DEF Decides
<1>5. ~Has(frames, "error") => Decides(more, frame)
  BY <1>1 DEF Has, Decides
<1> QED BY <1>2, <1>3, <1>4, <1>5 DEF more

LEMMA FramesLess ==
    ASSUME NEW frames \in Seq(FrameTypes), frames # <<>>
    PROVE  /\ Head(frames) \in FrameTypes
           /\ \A g : Has(Tail(frames), g) => Has(frames, g)
           /\ \A g : Has(frames, g) => Has(Tail(frames), g) \/ Head(frames) = g
           /\ Has(frames, Head(frames))
           /\ Head(frames) # "error" => Decides(frames, Head(frames))
           /\ Head(frames) # "error" => \A g : Decides(Tail(frames), g) => Decides(frames, g)
<1> DEFINE rest == Tail(frames)
<1>1. /\ Len(frames) \in Nat \ {0} /\ DOMAIN rest = 1 .. Len(frames) - 1
      /\ Head(frames) = frames[1] /\ \A i \in 1 .. Len(frames) - 1 : rest[i] = frames[i + 1]
      /\ DOMAIN frames = 1 .. Len(frames) /\ Head(frames) \in FrameTypes
  BY HeadTailProperties
<1> HIDE DEF rest
<1>2. \A g : Has(rest, g) => Has(frames, g)
  BY <1>1 DEF Has
<1>3. ASSUME NEW i \in 1 .. Len(frames), i # 1
      PROVE  i - 1 \in DOMAIN rest /\ rest[i - 1] = frames[i]
  BY <1>1, <1>3
<1>4. \A g : Has(frames, g) => Has(rest, g) \/ Head(frames) = g
  BY <1>1, <1>3 DEF Has
<1>5. Has(frames, Head(frames)) /\ (Head(frames) # "error" => Decides(frames, Head(frames)))
  BY <1>1 DEF Has, Decides
<1>6. ASSUME Head(frames) # "error", NEW g, Decides(rest, g) PROVE Decides(frames, g)
  <2>1. PICK i \in DOMAIN rest : rest[i] = g /\ \A j \in DOMAIN rest : j < i => rest[j] # "error"
    BY <1>6 DEF Decides
  <2>2. i + 1 \in DOMAIN frames /\ frames[i + 1] = g
    BY <1>1, <2>1
  <2>3. ASSUME NEW j \in DOMAIN frames, j < i + 1 PROVE frames[j] # "error"
    <3>1. CASE j = 1
      BY <1>1, <1>6, <3>1
    <3>2. CASE j # 1
      BY <1>1, <1>3, <2>1, <2>3, <3>2
    <3> QED BY <3>1, <3>2
  <2> QED BY <2>2, <2>3 DEF Decides
<1> QED BY <1>1, <1>2, <1>4, <1>5, <1>6 DEF rest

LEMMA FramesCut ==
    ASSUME NEW frames \in Seq(FrameTypes), NEW n \in 0 .. Len(frames)
    PROVE  \A g : Decides(SubSeq(frames, 1, n), g) => Decides(frames, g)
<1> DEFINE cut == SubSeq(frames, 1, n)
<1>1. /\ DOMAIN cut = 1 .. n /\ \A i \in 1 .. n : cut[i] = frames[i]
      /\ DOMAIN frames = 1 .. Len(frames) /\ Len(frames) \in Nat
  OBVIOUS
<1> HIDE DEF cut
<1> QED BY <1>1 DEF Decides, cut

\* Without frames there is nothing to read.
LEMMA FramesNone == \A g : ~Has(<<>>, g) /\ ~Decides(<<>>, g)
BY DEF Has, Decides

\* Nothing is under way before the first command.
LEMMA SentInit == MediaClientInit => MediaClientTypeOK /\ SentInv
<1> SUFFICES ASSUME MediaClientInit PROVE MediaClientTypeOK /\ SentInv
  OBVIOUS
<1> USE DEF MediaClientInit
<1>1. MediaClientTypeOK
  BY RestTypes DEF MediaClientTypeOK
<1>2. ReadingInv
  BY DEF ReadingInv, NotSending, NoDecoder, Connected, Opening
<1>3. ServedInv
  BY DEF ServedInv, NotSending, Apart, Connected, Opening
<1>4. VerdictInv /\ PipelineInv
  BY DEF VerdictInv, PipelineInv, NotSending, Connected
<1> QED BY <1>1, <1>2, <1>3, <1>4 DEF SentInv

\* The file is read to its end before a connection is made.
LEMMA ReadingStep ==
    ASSUME MediaClientTypeOK, ReadingInv, [MediaClientNext]_mediaClientVars
    PROVE  ReadingInv'
<1>1. /\ sender \in SenderStates /\ decoder \in DecoderStates /\ FileChunks \in Nat \ {0}
  BY MediaClientAssumption DEF MediaClientTypeOK
<1>2. ASSUME NEW clear \in BOOLEAN, SendBegins(clear) PROVE ReadingInv'
  BY <1>1, <1>2 DEF SendBegins, ReadingInv, NotSending, NoDecoder, Connected, Opening, SenderStates
<1>3. CASE ReadsWav
  BY <1>1, <1>3 DEF ReadsWav, ReadingInv, Connected, Opening, SenderStates
<1>4. CASE ForksDecoder
  BY <1>1, <1>4 DEF ForksDecoder, Sender, ReadingInv, Connected, Opening, SenderStates
<1>5. CASE DecoderWrites
  BY <1>1, <1>5 DEF DecoderWrites, ReadingInv, Connected, Opening, SenderStates, DecoderStates
<1>6. CASE DecoderEnds
  BY <1>1, <1>6 DEF DecoderEnds, ReadingInv, Connected, Opening, SenderStates, DecoderStates
<1>7. CASE ReadsDecoded
  BY <1>1, <1>7 DEF ReadsDecoded, ReadingInv, Connected, Opening, SenderStates, DecoderStates
<1>8. CASE ReapsDecoder
  BY <1>1, <1>8 DEF ReapsDecoder, ReadingInv, NoDecoder, Connected, Opening, SenderStates, DecoderStates
<1>9. CASE ConnectsMedia
  BY <1>1, <1>9 DEF ConnectsMedia, Sender, ReadingInv, Connected, Opening, SenderStates
<1>10. CASE SendsClear \/ SendsStart \/ SendsStop \/ SendsChunk
  <2>1. CASE SendsClear \/ SendsStart \/ SendsStop
    BY <1>1, <2>1 DEF SendsClear, SendsStart, SendsStop, Requested, Sender, ReadingInv, Connected,
       Opening, SenderStates
  <2>2. CASE SendsChunk
    BY <1>1, <2>2 DEF SendsChunk, Requested, ReadingInv, Connected, Opening, SenderStates
  <2> QED BY <1>10, <2>1, <2>2
<1>11. CASE DrainsReady \/ FramesLate
  BY <1>1, <1>11 DEF DrainsReady, FramesLate, ReadingInv, Connected, Opening, SenderStates
<1>12. CASE WaitsForFrame
  <2>1. /\ sender.at \in {"cleared", "started", "stopped"} /\ UNCHANGED decoder
        /\ \/ sender' = sender
           \/ sender.at = "cleared" /\ sender' = [sender EXCEPT !.at = "start"]
           \/ sender.at = "started" /\ sender' = [sender EXCEPT !.at = "chunk"]
           \/ \E answer : sender' = [NotSending EXCEPT !.said = answer]
    BY <1>12 DEF WaitsForFrame, Answers
  <2>2. CASE \E answer : sender' = [NotSending EXCEPT !.said = answer]
    BY <2>1, <2>2 DEF NotSending, ReadingInv, Connected, Opening
  <2> QED BY <1>1, <2>1, <2>2 DEF ReadingInv, Connected, Opening, SenderStates
<1>13. CASE SendFails
  BY <1>1, <1>13 DEF SendFails, NotSending, NoDecoder, ReadingInv, Connected, Opening, SenderStates
<1>14. CASE UNCHANGED <<sender, decoder>>
  BY <1>14 DEF ReadingInv
<1>15. ServesStart \/ ServesChunk \/ ServesStop \/ ServesClear \/ PlaysChunk \/ ReportsSpeech
       \/ BridgeCloses \/ SeesHangUp \/ UNCHANGED mediaClientVars => UNCHANGED <<sender, decoder>>
  BY DEF ServesStart, ServesChunk, ServesStop, ServesClear, Serves, PlaysChunk, ReportsSpeech,
     BridgeCloses, SeesHangUp, mediaClientVars
<1> QED BY <1>2, <1>3, <1>4, <1>5, <1>6, <1>7, <1>8, <1>9, <1>10, <1>11, <1>12, <1>13, <1>14,
        <1>15 DEF MediaClientNext

\* Playing, queueing, sending and stopping each take a chunk, or the stop, from the
\* end of one sequence to that of the next.
LEMMA OrderedPlays ==
    ASSUME NEW p \in Seq(Chunk), NEW q \in Seq(Chunk), NEW b \in Seq(RequestTypes),
           NEW sent \in Nat, NEW stops \in Nat, q # <<>>, Ordered(p, q, b, sent, stops)
    PROVE  Ordered(Append(p, Head(q)), Tail(q), b, sent, stops)
<1> DEFINE p1 == Append(p, Head(q))
           q1 == Tail(q)
<1>1. /\ Len(p) \in Nat /\ Len(q) \in Nat \ {0} /\ Len(b) \in Nat
      /\ Len(p1) = Len(p) + 1 /\ Len(q1) = Len(q) - 1
  BY HeadTailProperties
<1>2. /\ p1[Len(p) + 1] = q[1] /\ \A i \in 1..Len(p) : p1[i] = p[i]
      /\ \A i \in 1..Len(q) - 1 : q1[i] = q[i + 1]
  BY HeadTailProperties
<1> HIDE DEF p1, q1
<1>3. Len(p) + Len(q) + Len(b) = sent + stops
  BY DEF Ordered
<1>4. Len(p1) + Len(q1) = Len(p) + Len(q)
  BY <1>1
<1>5. \A i \in 1..Len(p1) : p1[i] = i
  <2> SUFFICES ASSUME NEW i \in 1..Len(p1) PROVE p1[i] = i
    OBVIOUS
  <2>1. CASE i \in 1..Len(p)
    BY <1>2, <2>1 DEF Ordered
  <2>2. CASE i = Len(p) + 1
    <3>1. 1 \in 1..Len(q)
      BY <1>1
    <3>2. q[1] = Len(p) + 1
      BY <3>1 DEF Ordered
    <3> QED BY <1>2, <2>2, <3>2
  <2> QED BY <1>1, <2>1, <2>2
<1>6. \A i \in 1..Len(q1) : q1[i] = Len(p1) + i
  <2> SUFFICES ASSUME NEW i \in 1..Len(q1) PROVE q1[i] = Len(p1) + i
    OBVIOUS
  <2>1. i + 1 \in 1..Len(q) /\ i \in 1..Len(q) - 1 /\ Len(p1) + i = Len(p) + (i + 1)
    BY <1>1
  <2>2. q[i + 1] = Len(p) + (i + 1)
    BY <2>1 DEF Ordered
  <2> QED BY <1>2, <2>1, <2>2
<1>7. \A i \in 1..Len(b) :
        b[i] = IF Len(p1) + Len(q1) + i <= sent THEN Request("chunk", Len(p1) + Len(q1) + i)
                                                ELSE Request("stop", 0)
  BY <1>4 DEF Ordered
<1>8. Len(p1) + Len(q1) + Len(b) = sent + stops
  BY <1>3, <1>4
<1> QED BY <1>5, <1>6, <1>7, <1>8 DEF Ordered, p1, q1

LEMMA OrderedQueues ==
    ASSUME NEW p \in Seq(Chunk), NEW q \in Seq(Chunk), NEW b \in Seq(RequestTypes),
           NEW sent \in Nat, NEW stops \in Nat, b # <<>>, Head(b).what = "chunk",
           Ordered(p, q, b, sent, stops)
    PROVE  /\ Ordered(p, Append(q, Head(b).chunk), Tail(b), sent, stops)
           /\ stops = 1 => Tail(b) # <<>>
<1> DEFINE q1 == Append(q, Head(b).chunk)
           b1 == Tail(b)
<1>1. /\ Len(p) \in Nat /\ Len(q) \in Nat /\ Len(b) \in Nat \ {0}
      /\ Len(q1) = Len(q) + 1 /\ Len(b1) = Len(b) - 1 /\ Head(b) = b[1]
  BY HeadTailProperties
<1>2. /\ q1[Len(q) + 1] = b[1].chunk /\ \A i \in 1..Len(q) : q1[i] = q[i]
      /\ \A i \in 1..Len(b) - 1 : b1[i] = b[i + 1]
  BY HeadTailProperties
<1> HIDE DEF q1, b1
<1>3. Len(p) + Len(q) + Len(b) = sent + stops
  BY DEF Ordered
<1>4. Len(p) + Len(q) + 1 <= sent /\ b[1].chunk = Len(p) + Len(q) + 1
  <2>1. 1 \in 1..Len(b)
    BY <1>1
  <2>2. b[1] = IF Len(p) + Len(q) + 1 <= sent THEN Request("chunk", Len(p) + Len(q) + 1)
                                              ELSE Request("stop", 0)
    BY <2>1 DEF Ordered
  <2>3. b[1].what = "chunk"
    BY <1>1
  <2> QED BY <2>2, <2>3 DEF Request
<1>5. \A i \in 1..Len(q1) : q1[i] = Len(p) + i
  <2> SUFFICES ASSUME NEW i \in 1..Len(q1) PROVE q1[i] = Len(p) + i
    OBVIOUS
  <2>1. CASE i \in 1..Len(q)
    BY <1>2, <2>1 DEF Ordered
  <2>2. CASE i = Len(q) + 1
    <3>1. Len(p) + Len(q) + 1 = Len(p) + (Len(q) + 1)
      BY <1>1
    <3> QED BY <1>2, <1>4, <2>2, <3>1
  <2> QED BY <1>1, <2>1, <2>2
<1>6. \A i \in 1..Len(b1) : b1[i] = IF Len(p) + Len(q1) + i <= sent
                                    THEN Request("chunk", Len(p) + Len(q1) + i)
                                    ELSE Request("stop", 0)
  <2> SUFFICES ASSUME NEW i \in 1..Len(b1)
               PROVE  b1[i] = IF Len(p) + Len(q1) + i <= sent
                              THEN Request("chunk", Len(p) + Len(q1) + i) ELSE Request("stop", 0)
    OBVIOUS
  <2>1. i + 1 \in 1..Len(b) /\ i \in 1..Len(b) - 1
        /\ Len(p) + Len(q) + (i + 1) = Len(p) + Len(q1) + i
    BY <1>1
  <2>2. b[i + 1] = IF Len(p) + Len(q) + (i + 1) <= sent
                   THEN Request("chunk", Len(p) + Len(q) + (i + 1)) ELSE Request("stop", 0)
    BY <2>1 DEF Ordered
  <2> QED BY <1>2, <2>1, <2>2
<1>7. Len(p) + Len(q1) + Len(b1) = sent + stops
  BY <1>1, <1>3
<1>8. stops = 1 => Len(b1) # 0
  BY <1>1, <1>3, <1>4
<1>9. b1 = <<>> => Len(b1) = 0
  OBVIOUS
<1>10. Ordered(p, q1, b1, sent, stops)
  BY <1>5, <1>6, <1>7 DEF Ordered
<1> QED BY <1>8, <1>9, <1>10 DEF q1, b1

LEMMA OrderedSends ==
    ASSUME NEW p \in Seq(Chunk), NEW q \in Seq(Chunk), NEW b \in Seq(RequestTypes),
           NEW sent \in Nat, NEW request \in RequestTypes, Ordered(p, q, b, sent, 0)
    PROVE  /\ request = Request("chunk", sent + 1) =>
                Ordered(p, q, Append(b, request), sent + 1, 0)
           /\ request = Request("stop", 0) => Ordered(p, q, Append(b, request), sent, 1)
           /\ Append(b, request) # <<>>
<1> DEFINE b1 == Append(b, request)
<1>1. Len(p) \in Nat /\ Len(q) \in Nat /\ Len(b) \in Nat /\ Len(b1) = Len(b) + 1
  OBVIOUS
<1>2. b1[Len(b) + 1] = request /\ (\A i \in 1..Len(b) : b1[i] = b[i]) /\ b1 # <<>>
  OBVIOUS
<1> HIDE DEF b1
<1>3. Len(p) + Len(q) + Len(b) = sent
  BY <1>1 DEF Ordered
<1>4. ASSUME NEW i \in 1..Len(b)
      PROVE  b1[i] = Request("chunk", Len(p) + Len(q) + i) /\ Len(p) + Len(q) + i <= sent
  <2>1. Len(p) + Len(q) + i <= sent
    BY <1>1, <1>3
  <2>2. b[i] = IF Len(p) + Len(q) + i <= sent THEN Request("chunk", Len(p) + Len(q) + i)
                                              ELSE Request("stop", 0)
    BY DEF Ordered
  <2> QED BY <1>2, <2>1, <2>2
<1>5. ASSUME request = Request("chunk", sent + 1) PROVE Ordered(p, q, b1, sent + 1, 0)
  <2>1. ASSUME NEW i \in 1..Len(b1)
        PROVE  b1[i] = Request("chunk", Len(p) + Len(q) + i) /\ Len(p) + Len(q) + i <= sent + 1
    <3>1. CASE i \in 1..Len(b)
      <4>1. b1[i] = Request("chunk", Len(p) + Len(q) + i) /\ Len(p) + Len(q) + i <= sent
        BY <1>4, <3>1
      <4> QED BY <1>1, <4>1
    <3>2. CASE i = Len(b) + 1
      <4>1. Len(p) + Len(q) + (Len(b) + 1) = sent + 1
        BY <1>1, <1>3
      <4> QED BY <1>2, <1>5, <3>2, <4>1
    <3> QED BY <1>1, <3>1, <3>2
  <2>2. Len(p) + Len(q) + Len(b1) = (sent + 1) + 0
    BY SMTT(30), <1>1, <1>3
  <2>3. (\A i \in 1..Len(p) : p[i] = i) /\ \A i \in 1..Len(q) : q[i] = Len(p) + i
    BY DEF Ordered
  <2> QED BY <2>1, <2>2, <2>3 DEF Ordered
<1>6. ASSUME request = Request("stop", 0) PROVE Ordered(p, q, b1, sent, 1)
  <2>1. ASSUME NEW i \in 1..Len(b1)
        PROVE  b1[i] = IF Len(p) + Len(q) + i <= sent THEN Request("chunk", Len(p) + Len(q) + i)
                                                      ELSE Request("stop", 0)
    <3>1. CASE i \in 1..Len(b)
      BY <1>4, <3>1
    <3>2. CASE i = Len(b) + 1
      <4>1. ~(Len(p) + Len(q) + i <= sent)
        BY <1>1, <1>3, <3>2
      <4> QED BY <1>2, <1>6, <3>2, <4>1
    <3> QED BY <1>1, <3>1, <3>2
  <2>2. Len(p) + Len(q) + Len(b1) = sent + 1
    BY SMTT(30), <1>1, <1>3
  <2>3. (\A i \in 1..Len(p) : p[i] = i) /\ \A i \in 1..Len(q) : q[i] = Len(p) + i
    BY DEF Ordered
  <2> QED BY <2>1, <2>2, <2>3 DEF Ordered
<1> QED BY <1>2, <1>5, <1>6 DEF b1

LEMMA OrderedStops ==
    ASSUME NEW p \in Seq(Chunk), NEW q \in Seq(Chunk), NEW b \in Seq(RequestTypes),
           NEW sent \in Nat, NEW stops \in {0, 1}, b # <<>>, Ordered(p, q, b, sent, stops)
    PROVE  /\ Head(b).what \in {"chunk", "stop"}
           /\ Head(b).what = "stop" =>
                stops = 1 /\ Tail(b) = <<>> /\ Ordered(p, q, <<>>, sent, 0)
<1>1. /\ Len(p) \in Nat /\ Len(q) \in Nat /\ Len(b) \in Nat \ {0}
      /\ Len(Tail(b)) = Len(b) - 1 /\ Head(b) = b[1] /\ Tail(b) \in Seq(RequestTypes)
  BY HeadTailProperties
<1>2. Len(p) + Len(q) + Len(b) = sent + stops
  BY DEF Ordered
<1>3. b[1] = IF Len(p) + Len(q) + 1 <= sent THEN Request("chunk", Len(p) + Len(q) + 1)
                                            ELSE Request("stop", 0)
  <2>1. 1 \in 1..Len(b)
    BY <1>1
  <2> QED BY <2>1 DEF Ordered
<1>4. Head(b).what \in {"chunk", "stop"}
  BY <1>1, <1>3 DEF Request
<1>5. ASSUME Head(b).what = "stop"
      PROVE  stops = 1 /\ Tail(b) = <<>> /\ Ordered(p, q, <<>>, sent, 0)
  <2>1. ~(Len(p) + Len(q) + 1 <= sent)
    BY <1>1, <1>3, <1>5 DEF Request
  <2>2. stops = 1 /\ Len(b) = 1 /\ Len(p) + Len(q) = sent
    BY SMTT(30), <1>1, <1>2, <2>1
  <2>3. Tail(b) = <<>>
    <3> DEFINE rest == Tail(b)
    <3>1. rest \in Seq(RequestTypes) /\ Len(rest) = 0
      BY <1>1, <2>2
    <3> HIDE DEF rest
    <3>2. rest = <<>>
      BY <3>1, EmptySeq
    <3> QED BY <3>2 DEF rest
  <2>4. Len(p) + Len(q) + Len(<<>>) = sent + 0
    BY <1>1, <2>2
  <2>5. (\A i \in 1..Len(p) : p[i] = i) /\ \A i \in 1..Len(q) : q[i] = Len(p) + i
    BY DEF Ordered
  <2> QED BY <2>2, <2>3, <2>4, <2>5 DEF Ordered
<1> QED BY <1>4, <1>5

\* The chunks of a file that was sent and queued completely are what was played.
LEMMA OrderedWhole ==
    ASSUME NEW p \in Seq(Chunk), NEW q \in Seq(Chunk), NEW sent \in Nat,
           Ordered(p, q, <<>>, sent, 0)
    PROVE  /\ q = <<>> => Len(p) = sent /\ \A i \in 1..sent : p[i] = i
           /\ Len(q) = 1 => Len(Append(p, Head(q))) = sent
                            /\ \A i \in 1..sent : Append(p, Head(q))[i] = i
<1>1. Len(p) \in Nat /\ Len(q) \in Nat
  OBVIOUS
<1>2. Len(p) + Len(q) = sent /\ \A i \in 1..Len(p) : p[i] = i
  BY <1>1 DEF Ordered
<1>3. q = <<>> => Len(q) = 0
  OBVIOUS
<1>4. ASSUME Len(q) = 1
      PROVE  Len(Append(p, Head(q))) = sent /\ \A i \in 1..sent : Append(p, Head(q))[i] = i
  <2>1. q # <<>>
    BY <1>3, <1>4
  <2>2. Ordered(Append(p, Head(q)), Tail(q), <<>>, sent, 0)
    BY <2>1, OrderedPlays, RestTypes
  <2>3. Len(Append(p, Head(q))) = Len(p) + 1
    BY <2>1
  <2>4. Len(p) + 1 = sent
    BY <1>1, <1>2, <1>4
  <2> QED BY <2>2, <2>3, <2>4 DEF Ordered
<1> QED BY <1>1, <1>2, <1>3, <1>4

\* A command without a bridge that serves it has nothing under way, after any step.
LEMMA ServedStep ==
    ASSUME MediaClientTypeOK, ServedInv, [MediaClientNext]_mediaClientVars
    PROVE  ServedInv'
<1> USE DEF Connected, Opening
<1>1. /\ sender \in SenderStates /\ served \in ServedStates
  BY DEF MediaClientTypeOK
<1>2. ASSUME NEW clear \in BOOLEAN, SendBegins(clear) PROVE ServedInv'
  BY <1>2 DEF SendBegins, ServedInv, NotSending, Apart
<1>3. CASE ReadsWav \/ ForksDecoder \/ ReadsDecoded \/ ReapsDecoder \/ DecoderWrites \/ DecoderEnds
  <2>1. /\ UNCHANGED <<toBridge, toSender, served, played>>
        /\ sender' = sender \/ (sender.at \in Opening /\ sender'.at \in Opening)
    BY <1>1, <1>3 DEF ReadsWav, ForksDecoder, Sender, ReadsDecoded, ReapsDecoder, DecoderWrites,
       DecoderEnds, SenderStates
  <2> QED BY <2>1 DEF ServedInv
<1>4. CASE ConnectsMedia
  <2>1. /\ sender'.at \in {"clear", "start"} /\ served'.at \in {"serves", "refuses"}
        /\ ~served'.active /\ toBridge' = toBridge /\ sender.at = "connect"
    BY <1>1, <1>4 DEF ConnectsMedia, Sender, SenderStates, Apart
  <2> QED BY <2>1 DEF ServedInv
<1>5. CASE SendsClear \/ SendsStart \/ SendsChunk \/ SendsStop
  <2>1. /\ sender.at \in Connected /\ sender'.at \in Connected /\ UNCHANGED served
        /\ served.at # "serves" => toBridge' = toBridge
    BY <1>1, <1>5 DEF SendsClear, SendsStart, SendsChunk, SendsStop, Sender, Requested, SenderStates
  <2> QED BY <2>1 DEF ServedInv
<1>6. CASE DrainsReady \/ FramesLate
  <2>1. /\ sender.at \in Connected /\ sender'.at \in Connected /\ UNCHANGED <<served, toBridge>>
    BY <1>1, <1>6 DEF DrainsReady, FramesLate, SenderStates
  <2> QED BY <2>1 DEF ServedInv
<1>7. CASE WaitsForFrame
  <2>1. /\ sender.at \in {"cleared", "started", "stopped"} /\ UNCHANGED toBridge
        /\ served' = IF sender'.at = "idle" THEN [served EXCEPT !.at = "closed"] ELSE served
        /\ sender'.at \in Connected \cup {"idle"}
    BY <1>1, <1>7 DEF WaitsForFrame, Answers, NotSending, SenderStates
  <2> QED BY <1>1, <2>1 DEF ServedInv, ServedStates
<1>8. CASE SendFails
  <2>1. sender'.at = "idle" /\ (served' = served \/ served'.at = "closed")
    BY <1>1, <1>8 DEF SendFails, NotSending, ServedStates
  <2> QED BY <2>1 DEF ServedInv
<1>9. CASE ServesStart \/ ServesChunk \/ ServesStop \/ ServesClear
  <2>1. /\ served.at \in {"serves", "closed"} /\ toBridge # <<>> /\ UNCHANGED sender
        /\ served'.at = served.at
    BY <1>1, <1>9 DEF ServesStart, ServesChunk, ServesStop, ServesClear, Serves, ServedStates
  <2> QED BY <2>1 DEF ServedInv
<1>10. CASE PlaysChunk
  <2>1. /\ served.active /\ served'.at = served.at /\ UNCHANGED <<sender, toBridge>>
    BY <1>1, <1>10 DEF PlaysChunk, ServedStates
  <2> QED BY <2>1 DEF ServedInv, Apart
<1>11. CASE ReportsSpeech
  BY <1>11 DEF ReportsSpeech, ServedInv
<1>12. CASE BridgeCloses
  <2>1. /\ served.at = "serves" /\ served'.at = "closed" /\ ~served'.active /\ toBridge' = <<>>
        /\ UNCHANGED sender
    BY <1>12 DEF BridgeCloses, Apart
  <2> QED BY <2>1 DEF ServedInv
<1>13. CASE SeesHangUp
  BY <1>13 DEF SeesHangUp, ServedInv
<1>14. CASE UNCHANGED mediaClientVars
  BY <1>14 DEF mediaClientVars, ServedInv
<1> QED BY <1>2, <1>3, <1>4, <1>5, <1>6, <1>7, <1>8, <1>9, <1>10, <1>11, <1>12, <1>13, <1>14
        DEF MediaClientNext

\* What is under way at a stage where the bridge has a request to serve: only the
\* request the stage has sent, and behind it none.
LEMMA UnderWay ==
    ASSUME MediaClientTypeOK, SentInv, sender.at # "idle", toBridge # <<>>,
           ~Has(toSender, "error")
    PROVE  /\ served.at = "serves" /\ sender.at \in Connected
           /\ Head(toBridge).what = "clear" =>
                sender.at = "cleared" /\ Untouched /\ Tail(toBridge) = <<>>
           /\ Head(toBridge).what = "start" =>
                sender.at = "started" /\ Untouched /\ Tail(toBridge) = <<>>
           /\ Head(toBridge).what = "chunk" =>
                \/ sender.at \in {"chunk", "ready", "stop"} /\ Streaming(0)
                \/ sender.at = "stopped" /\ Streaming(1)
           /\ Head(toBridge).what = "stop" =>
                /\ sender.at = "stopped" /\ Streaming(1) /\ Tail(toBridge) = <<>>
                /\ Ordered(played, served.queue, <<>>, sender.sent, 0)
<1>1. /\ sender \in SenderStates /\ served \in ServedStates /\ toBridge \in Seq(RequestTypes)
      /\ played \in Seq(Chunk) /\ FileChunks \in Nat
  BY MediaClientAssumption DEF MediaClientTypeOK
<1>2. sender.at \in Connected /\ served.at = "serves"
  BY <1>1 DEF SentInv, ServedInv, SenderStates, Opening
<1>3. sender.sent \in Nat /\ served.queue \in Seq(Chunk)
  BY <1>1 DEF SenderStates, ServedStates
<1>4. ASSUME NEW stops \in {0, 1}, Streaming(stops)
      PROVE  /\ Head(toBridge).what \in {"chunk", "stop"}
             /\ Head(toBridge).what = "stop" =>
                  /\ stops = 1 /\ Tail(toBridge) = <<>>
                  /\ Ordered(played, served.queue, <<>>, sender.sent, 0)
  BY <1>1, <1>3, <1>4, OrderedStops DEF Streaming, InOrder
<1>5. CASE sender.at \in {"clear", "start"}
  BY <1>2, <1>5 DEF SentInv, PipelineInv
<1>6. CASE sender.at = "cleared"
  <2>1. Untouched /\ toBridge = <<Request("clear", 0)>>
    BY <1>2, <1>6 DEF SentInv, PipelineInv
  <2>2. Head(toBridge).what = "clear" /\ Tail(toBridge) = <<>>
    BY <2>1 DEF Request
  <2> QED BY <1>2, <1>6, <2>1, <2>2
<1>7. CASE sender.at = "started"
  <2>1. Untouched /\ toBridge = <<Request("start", 0)>>
    BY <1>2, <1>7 DEF SentInv, PipelineInv
  <2>2. Head(toBridge).what = "start" /\ Tail(toBridge) = <<>>
    BY <2>1 DEF Request
  <2> QED BY <1>2, <1>7, <2>1, <2>2
<1>8. CASE sender.at \in {"chunk", "ready", "stop"}
  <2>1. Streaming(0)
    BY <1>2, <1>8 DEF SentInv, PipelineInv
  <2> QED BY <1>2, <1>4, <1>8, <2>1
<1>9. CASE sender.at = "stopped"
  <2>1. Streaming(1)
    BY <1>2, <1>9 DEF SentInv, PipelineInv
  <2> QED BY <1>2, <1>4, <1>9, <2>1
<1> QED BY <1>2, <1>5, <1>6, <1>7, <1>8, <1>9 DEF Connected

\* An open session that was asked to stop has the rest of the file in its queue.
LEMMA DrainsTheRest ==
    ASSUME MediaClientTypeOK, SentInv, sender.at # "idle", served.active, served.stopping,
           ~Has(toSender, "error")
    PROVE  /\ sender.at = "stopped" /\ toBridge = <<>> /\ served.at = "serves"
           /\ Ordered(played, served.queue, <<>>, FileChunks, 0)
<1>1. sender \in SenderStates
  BY DEF MediaClientTypeOK
<1>2. served.at = "serves" /\ sender.at \in Connected
  BY <1>1 DEF SentInv, ServedInv, SenderStates, Opening
<1>3. sender.at = "stopped" /\ toBridge = <<>> /\ InOrder(0)
  BY <1>2 DEF SentInv, PipelineInv, Connected, Untouched, Streaming
<1>4. sender.sent = FileChunks
  BY <1>2, <1>3 DEF SentInv, ReadingInv
<1> QED BY <1>2, <1>3, <1>4 DEF InOrder

\* No command can be about to read a false answer: the bridge appends an answer
\* only when it is true, or behind an error.
LEMMA VerdictStep ==
    ASSUME MediaClientTypeOK, SentInv, [MediaClientNext]_mediaClientVars
    PROVE  VerdictInv'
<1>1. /\ sender \in SenderStates /\ served \in ServedStates /\ toBridge \in Seq(RequestTypes)
      /\ toSender \in Seq(FrameTypes) /\ played \in Seq(Chunk) /\ FileChunks \in Nat \ {0}
  BY MediaClientAssumption DEF MediaClientTypeOK
<1>2. /\ VerdictInv
      /\ sender.at # "idle" => sender.said = "nothing"
      /\ served.queue \in Seq(Chunk)
  BY <1>1 DEF SentInv, ReadingInv, ServedStates
<1>3. ASSUME NEW clear \in BOOLEAN, SendBegins(clear) PROVE VerdictInv'
  BY <1>3, FramesNone DEF SendBegins, NotSending, VerdictInv
<1>4. CASE ReadsWav \/ ForksDecoder \/ ReadsDecoded \/ ReapsDecoder \/ DecoderWrites \/ DecoderEnds
  <2>1. /\ UNCHANGED <<toBridge, toSender, served, played>> /\ sender'.said = sender.said
        /\ sender' = sender \/ (sender.at \in Opening /\ sender'.at \in Opening)
    BY <1>1, <1>4 DEF ReadsWav, ForksDecoder, Sender, ReadsDecoded, ReapsDecoder, DecoderWrites,
       DecoderEnds, SenderStates, Opening
  <2>2. sender.at \in Opening => toSender = <<>>
    BY DEF SentInv, ServedInv
  <2> QED BY <1>2, <2>1, <2>2, FramesNone DEF VerdictInv, Opening, Whole
<1>5. CASE ConnectsMedia
  <2>1. /\ sender'.said = sender.said /\ sender.said = "nothing"
        /\ toSender' = <<"hello", "status">> \/ toSender' = <<"error">>
    BY <1>1, <1>2, <1>5 DEF ConnectsMedia, Sender, SenderStates
  <2>2. \A g \in {"drained", "inactive"} : ~Decides(<<"hello", "status">>, g)
                                           /\ ~Decides(<<"error">>, g)
    BY DEF Decides
  <2> QED BY <2>1, <2>2 DEF VerdictInv
<1>6. CASE SendsClear \/ SendsStart \/ SendsChunk \/ SendsStop \/ DrainsReady \/ FramesLate
  <2>1. /\ sender.at \in {"clear", "start", "chunk", "stop", "ready"}
        /\ sender'.said = sender.said /\ sender.said = "nothing"
    BY <1>1, <1>2, <1>6 DEF SendsClear, SendsStart, SendsChunk, SendsStop, Sender, Requested,
       DrainsReady, FramesLate, SenderStates
  <2>2. \A g \in {"drained", "inactive"} : ~Decides(toSender, g)
    BY <1>2, <2>1 DEF VerdictInv
  <2>3. \/ toSender' = toSender
        \/ toSender # <<>> /\ Head(toSender) # "error" /\ toSender' = Tail(toSender)
    BY <1>6 DEF SendsClear, SendsStart, SendsChunk, SendsStop, Requested, DrainsReady, FramesLate,
       IsError
  <2>4. \A g \in {"drained", "inactive"} : ~Decides(toSender', g)
    BY <1>1, <2>2, <2>3, FramesLess
  <2> QED BY <2>1, <2>4 DEF VerdictInv
<1>7. CASE WaitsForFrame
  <2>1. /\ sender.at \in {"cleared", "started", "stopped"} /\ UNCHANGED <<toBridge, played>>
        /\ toSender # <<>> /\ Head(toSender) # "error" /\ toSender' = Tail(toSender)
        /\ served'.active = served.active /\ sender.said = "nothing"
    BY <1>1, <1>2, <1>7 DEF WaitsForFrame, Answers, IsError, ServedStates
  <2>2. \A g : Decides(toSender', g) => Decides(toSender, g)
    BY <1>1, <2>1, FramesLess
  <2>3. Decides(toSender, Head(toSender))
    BY <1>1, <2>1, FramesLess
  <2>4. CASE sender.at \in {"cleared", "started"} \/ sender' = sender
    <3>1. sender'.said = "nothing" /\ (sender.at = "stopped" => sender' = sender)
      BY <1>1, <1>7, <2>1, <2>4 DEF WaitsForFrame, Answers, SenderStates
    <3> QED BY <1>2, <2>1, <2>2, <2>4, <3>1 DEF VerdictInv, Whole
  <2>5. CASE sender.at = "stopped" /\ sender' # sender
    <3>1. /\ Head(toSender) \in {"drained", "inactive"}
          /\ sender' = [NotSending EXCEPT !.said = Head(toSender)]
      BY <1>7, <2>5 DEF WaitsForFrame, Answers
    <3>2. /\ Head(toSender) = "drained"
          /\ Whole /\ ~served.active /\ toBridge = <<>>
      BY <1>2, <2>3, <2>5, <3>1 DEF VerdictInv
    <3>3. sender'.at = "idle" /\ sender'.said = "drained"
      BY <3>1, <3>2 DEF NotSending
    <3> QED BY <2>1, <3>2, <3>3 DEF VerdictInv, Whole
  <2> QED BY <2>1, <2>4, <2>5
<1>8. CASE SendFails
  BY <1>8 DEF SendFails, NotSending, VerdictInv
<1>9. ASSUME UNCHANGED sender,
             sender.at # "idle" => ~Decides(toSender, "drained") \/ (Whole' /\ ~served'.active /\ toBridge' = <<>>),
             sender.said # "drained" \/ (Whole' /\ ~served'.active /\ toBridge' = <<>>),
             \/ \A g \in {"drained", "inactive"} : Decides(toSender', g) => Decides(toSender, g)
             \/ sender.at = "idle"
      PROVE  VerdictInv'
  BY <1>2, <1>9 DEF VerdictInv
<1>10. CASE ServesStart \/ ServesChunk \/ ServesStop \/ ServesClear
  <2>1. toBridge # <<>> /\ UNCHANGED <<sender, played>>
    BY <1>10 DEF ServesStart, ServesChunk, ServesStop, ServesClear, Serves
  <2>2. sender.at # "idle" => \A g \in {"drained", "inactive"} : ~Decides(toSender, g)
    BY <1>2, <2>1 DEF VerdictInv
  <2>3. sender.said # "drained"
    BY <1>2, <2>1 DEF VerdictInv
  <2>4. ASSUME NEW frame \in FrameTypes \ {"drained", "inactive"}, Tells(frame)
        PROVE  VerdictInv'
    <3>1. \A g \in {"drained", "inactive"} : Decides(toSender', g) => Decides(toSender, g)
      BY <1>1, <2>4, FramesMore DEF Tells
    <3> QED BY <1>9, <2>1, <2>2, <2>3, <3>1
  <2>5. CASE toSender' = toSender
    BY <1>9, <2>1, <2>2, <2>3, <2>5
  <2>6. {"started", "error", "cleared"} \subseteq FrameTypes \ {"drained", "inactive"}
    BY DEF FrameTypes
  <2>7. CASE ServesStop /\ toSender' # toSender
    <3>1. CASE sender.at = "idle"
      BY <1>9, <2>1, <2>3, <3>1
    <3>2. CASE sender.at # "idle" /\ Has(toSender, "error")
      <4>1. PICK frame \in {"inactive", "drained"} : toSender' = Append(toSender, frame)
        BY <2>7 DEF ServesStop, Tells
      <4>2. frame \in FrameTypes
        BY DEF FrameTypes
      <4>3. \A g \in {"drained", "inactive"} : Decides(toSender', g) => Decides(toSender, g)
        BY <1>1, <3>2, <4>1, <4>2, FramesMore
      <4> QED BY <1>9, <2>1, <2>2, <2>3, <4>3
    <3>3. CASE sender.at # "idle" /\ ~Has(toSender, "error")
      <4>1. Head(toBridge).what = "stop" /\ toBridge' = Tail(toBridge)
        BY <2>7 DEF ServesStop, Serves
      <4>2. /\ sender.at = "stopped" /\ served.active /\ Tail(toBridge) = <<>>
            /\ Ordered(played, served.queue, <<>>, sender.sent, 0)
        BY <2>1, <3>3, <4>1, UnderWay DEF Streaming
      <4>3. served.queue = <<>> /\ ~served'.active /\ Tells("drained")
        BY <1>1, <2>7, <4>2 DEF ServesStop, ServedStates
      <4>4. sender.sent = FileChunks
        BY <4>2, <3>3 DEF SentInv, ReadingInv, Connected
      <4>5. Len(played) = FileChunks /\ \A i \in 1..FileChunks : played[i] = i
        <5>1. /\ played \in Seq(Chunk) /\ served.queue \in Seq(Chunk) /\ FileChunks \in Nat
              /\ Ordered(played, served.queue, <<>>, FileChunks, 0)
          BY <1>1, <1>2, <4>2, <4>4 DEF ServedStates
        <5> QED BY <4>3, <5>1, OrderedWhole
      <4>6. ~Decides(toSender', "inactive")
        BY <1>1, <2>2, <3>3, <4>3, FramesMore DEF Tells, FrameTypes
      <4> QED BY <2>1, <2>3, <4>1, <4>2, <4>3, <4>5, <4>6, <1>2 DEF VerdictInv, Whole
    <3> QED BY <3>1, <3>2, <3>3
  <2> QED BY <1>10, <2>4, <2>5, <2>6, <2>7 DEF ServesStart, ServesChunk, ServesClear
<1>11. CASE PlaysChunk
  <2>1. served.active /\ served.queue # <<>> /\ UNCHANGED <<sender, toBridge>>
        /\ played' = Append(played, Head(served.queue))
    BY <1>11 DEF PlaysChunk
  <2>2. /\ sender.at # "idle" => \A g \in {"drained", "inactive"} : ~Decides(toSender, g)
        /\ sender.said # "drained"
    BY <1>2, <2>1 DEF VerdictInv
  <2>3. CASE toSender' = toSender \/ sender.at = "idle"
    BY <1>9, <2>1, <2>2, <2>3
  <2>4. CASE sender.at # "idle" /\ toSender' # toSender
    <3>1. served.stopping /\ Len(served.queue) = 1 /\ Tells("drained") /\ ~served'.active
      BY <1>1, <1>11, <2>4 DEF PlaysChunk, ServedStates
    <3>2. "drained" \in FrameTypes /\ "drained" # "inactive"
      BY DEF FrameTypes
    <3>3. CASE Has(toSender, "error")
      <4>1. \A g \in {"drained", "inactive"} : Decides(toSender', g) => Decides(toSender, g)
        BY <1>1, <3>1, <3>2, <3>3, FramesMore DEF Tells
      <4> QED BY <1>9, <2>1, <2>2, <4>1
    <3>4. CASE ~Has(toSender, "error")
      <4>1. sender.at = "stopped" /\ toBridge = <<>>
            /\ Ordered(played, served.queue, <<>>, FileChunks, 0)
        BY <2>1, <2>4, <3>1, <3>4, DrainsTheRest
      <4>2. Whole'
        BY <1>1, <1>2, <2>1, <3>1, <4>1, OrderedWhole DEF Whole
      <4>3. ~Decides(toSender', "inactive")
        BY <1>1, <2>2, <2>4, <3>1, <3>2, FramesMore DEF Tells
      <4> QED BY <1>2, <2>1, <2>2, <3>1, <4>1, <4>2, <4>3 DEF VerdictInv
    <3> QED BY <3>3, <3>4
  <2> QED BY <2>3, <2>4
<1>12. CASE ReportsSpeech
  <2>1. \A g \in {"drained", "inactive"} : Decides(toSender', g) => Decides(toSender, g)
    BY <1>1, <1>12, FramesMore DEF ReportsSpeech, Tells, FrameTypes
  <2> QED BY <1>2, <1>12, <2>1 DEF ReportsSpeech, VerdictInv, Whole
<1>13. CASE BridgeCloses
  <2>1. /\ UNCHANGED <<sender, played>> /\ ~served'.active /\ toBridge' = <<>>
        /\ \A g : Decides(toSender', g) => Decides(toSender, g)
    BY <1>1, <1>13, FramesCut DEF BridgeCloses, Apart
  <2> QED BY <1>2, <2>1 DEF VerdictInv, Whole
<1>14. CASE SeesHangUp
  BY <1>2, <1>14 DEF SeesHangUp, Apart, VerdictInv, Whole
<1>15. CASE UNCHANGED mediaClientVars
  BY <1>2, <1>15 DEF mediaClientVars, VerdictInv, Whole
<1> QED BY <1>3, <1>4, <1>5, <1>6, <1>7, <1>8, <1>10, <1>11, <1>12, <1>13, <1>14, <1>15
        DEF MediaClientNext

\* As long as no error is on its way to it, a command at any stage has exactly its
\* own requests and chunks under way.
LEMMA PipelineStep ==
    ASSUME MediaClientTypeOK, SentInv, [MediaClientNext]_mediaClientVars
    PROVE  PipelineInv'
<1> SUFFICES ASSUME sender'.at \in Connected, served'.at = "serves", ~Has(toSender', "error")
             PROVE  PipelineInv'
  BY DEF PipelineInv
<1>1. /\ sender \in SenderStates /\ served \in ServedStates /\ toBridge \in Seq(RequestTypes)
      /\ toSender \in Seq(FrameTypes) /\ played \in Seq(Chunk) /\ FileChunks \in Nat \ {0}
  BY MediaClientAssumption DEF MediaClientTypeOK
<1>2. /\ PipelineInv /\ ReadingInv /\ ServedInv
      /\ served.queue \in Seq(Chunk) /\ sender.sent \in Nat
  BY <1>1 DEF SentInv, ServedStates, SenderStates
<1>3. ASSUME NEW frame \in FrameTypes, toSender' = Append(toSender, frame)
      PROVE  /\ ~Has(toSender, "error") /\ frame # "error"
             /\ \A g : g # frame => (Has(toSender', g) <=> Has(toSender, g))
  BY <1>1, <1>3, FramesMore
<1>4. ASSUME toSender # <<>>, Head(toSender) # "error", toSender' = Tail(toSender)
      PROVE  /\ ~Has(toSender, "error") /\ Has(toSender, Head(toSender))
             /\ \A g : Has(toSender', g) => Has(toSender, g)
  BY <1>1, <1>4, FramesLess
<1>5. ASSUME NEW clear \in BOOLEAN, SendBegins(clear) PROVE FALSE
  BY <1>5 DEF SendBegins, NotSending, Connected
<1>6. CASE ReadsWav \/ ForksDecoder \/ ReadsDecoded \/ ReapsDecoder \/ SendFails
  BY <1>1, <1>6 DEF ReadsWav, ForksDecoder, Sender, ReadsDecoded, ReapsDecoder, SendFails,
     NotSending, SenderStates, Connected
<1>7. CASE ConnectsMedia
  <2>1. /\ sender'.at \in {"clear", "start"} /\ toBridge' = <<>> /\ played' = <<>>
        /\ ~served'.active /\ served'.queue = <<>> /\ toSender' = <<"hello", "status">>
    BY <1>1, <1>2, <1>7 DEF ConnectsMedia, Sender, SenderStates, Apart, ServedInv, Opening
  <2>2. ~Has(<<"hello", "status">>, "cleared") /\ ~Has(<<"hello", "status">>, "started")
    BY DEF Has
  <2> QED BY <2>1, <2>2 DEF PipelineInv, Untouched
<1>8. CASE SendsClear \/ SendsStart
  <2>1. /\ UNCHANGED <<served, toSender, played>> /\ toBridge' = Append(toBridge, Request(
             IF sender.at = "clear" THEN "clear" ELSE "start", 0))
        /\ \/ sender.at = "clear" /\ sender'.at = "cleared"
           \/ sender.at = "start" /\ sender'.at = "started"
    BY <1>1, <1>8 DEF SendsClear, SendsStart, Sender, Requested, SenderStates
  <2>2. /\ Untouched /\ toBridge = <<>> /\ ~Has(toSender, "started")
        /\ sender.at = "clear" => ~Has(toSender, "cleared")
    BY <1>2, <2>1 DEF PipelineInv, Connected
  <2>3. \A r \in RequestTypes : Append(<<>>, r) = <<r>>
    OBVIOUS
  <2>4. Request("clear", 0) \in RequestTypes /\ Request("start", 0) \in RequestTypes
    BY DEF Request, RequestTypes
  <2> QED BY <2>1, <2>2, <2>3, <2>4 DEF PipelineInv, Untouched
<1>9. CASE SendsChunk \/ SendsStop
  <2>1. /\ UNCHANGED <<served, toSender, played>> /\ sender.at \in {"chunk", "stop"}
        /\ \/ /\ toBridge' = Append(toBridge, Request("chunk", sender.sent + 1))
              /\ sender.at = "chunk" /\ sender'.at = "ready" /\ sender'.sent = sender.sent + 1
           \/ /\ toBridge' = Append(toBridge, Request("stop", 0))
              /\ sender'.at = "stopped" /\ sender'.sent = sender.sent
    BY <1>1, <1>9 DEF SendsChunk, SendsStop, Sender, Requested, SenderStates
  <2>2. Streaming(0)
    BY <1>2, <2>1 DEF PipelineInv, Connected
  <2>3. Request("stop", 0) \in RequestTypes
    BY DEF Request, RequestTypes
  <2>4. sender.at = "chunk" => Request("chunk", sender.sent + 1) \in RequestTypes
    <3>1. sender.at = "chunk" => sender.sent + 1 \in 1..FileChunks
      BY <1>1, <1>2 DEF ReadingInv, SenderStates
    <3> QED BY <3>1 DEF Request, RequestTypes, Chunk
  <2>5. CASE sender'.at = "ready"
    <3>1. Streaming(0)'
      BY <1>1, <1>2, <2>1, <2>2, <2>4, <2>5, OrderedSends DEF Streaming, InOrder
    <3> QED BY <2>5, <3>1 DEF PipelineInv
  <2>6. CASE sender'.at = "stopped"
    <3>1. Streaming(1)' /\ toBridge' # <<>>
      BY <1>1, <1>2, <2>1, <2>2, <2>3, <2>6, OrderedSends DEF Streaming, InOrder
    <3> QED BY <2>6, <3>1 DEF PipelineInv
  <2> QED BY <2>1, <2>5, <2>6
<1>10. CASE DrainsReady \/ FramesLate
  <2>1. /\ sender.at = "ready" /\ UNCHANGED <<toBridge, served, played>>
        /\ sender'.at \in {"ready", "chunk", "stop"} /\ sender'.sent = sender.sent
        /\ \/ toSender' = toSender
           \/ toSender # <<>> /\ Head(toSender) # "error" /\ toSender' = Tail(toSender)
    BY <1>1, <1>10 DEF DrainsReady, FramesLate, IsError, SenderStates
  <2>2. Streaming(0)
    BY <1>2, <1>4, <2>1 DEF PipelineInv, Connected
  <2> QED BY <2>1, <2>2 DEF PipelineInv, Streaming, InOrder
<1>11. CASE WaitsForFrame
  <2>1. /\ sender.at \in {"cleared", "started", "stopped"} /\ UNCHANGED <<toBridge, played>>
        /\ toSender # <<>> /\ Head(toSender) # "error" /\ toSender' = Tail(toSender)
        /\ served' = served /\ sender'.sent = sender.sent
        /\ \/ sender'.at = sender.at
           \/ sender.at = "cleared" /\ sender'.at = "start" /\ Head(toSender) = "cleared"
           \/ sender.at = "started" /\ sender'.at = "chunk" /\ Head(toSender) = "started"
    BY <1>1, <1>11 DEF WaitsForFrame, Answers, IsError, SenderStates, NotSending, Connected
  <2>2. served.at = "serves" /\ ~Has(toSender, "error") /\ sender.at \in Connected
    BY <1>4, <2>1 DEF Connected
  <2>3. CASE sender'.at = sender.at
    BY <1>2, <1>4, <2>1, <2>2, <2>3 DEF PipelineInv, Untouched, Streaming, InOrder
  <2>4. CASE sender.at = "cleared" /\ sender'.at = "start"
    <3>1. Has(toSender, "cleared")
      BY <1>4, <2>1, <2>4
    <3>2. Untouched /\ toBridge = <<>> /\ ~Has(toSender, "started")
      BY <1>2, <2>2, <2>4, <3>1 DEF PipelineInv
    <3>3. ~Has(toSender', "started")
      BY <1>4, <2>1, <3>2
    <3> QED BY <2>1, <2>4, <3>2, <3>3 DEF PipelineInv, Untouched
  <2>5. CASE sender.at = "started" /\ sender'.at = "chunk"
    <3>1. Has(toSender, "started")
      BY <1>4, <2>1, <2>5
    <3>2. Streaming(0)
      BY <1>2, <2>2, <2>5, <3>1 DEF PipelineInv
    <3> QED BY <2>1, <2>5, <3>2 DEF PipelineInv, Streaming, InOrder
  <2> QED BY <2>1, <2>3, <2>4, <2>5
<1>12. CASE ServesStart
  <2>1. /\ sender' = sender /\ sender.at # "idle" /\ toBridge # <<>>
        /\ Head(toBridge).what = "start" /\ toBridge' = Tail(toBridge)
        /\ toSender' = Append(toSender, "started") /\ played' = played
        /\ served' = [served EXCEPT !.active = TRUE, !.stopping = FALSE, !.queue = <<>>]
    <3>1. "error" \in FrameTypes
      BY DEF FrameTypes
    <3> QED BY <1>3, <1>12, <3>1 DEF ServesStart, Serves, Tells, Connected
  <2>2. ~Has(toSender, "error")
    BY <1>3, <2>1 DEF FrameTypes
  <2>3. sender.at = "started" /\ Untouched /\ Tail(toBridge) = <<>> /\ sender.sent = 0
    BY <1>2, <2>1, <2>2, UnderWay DEF ReadingInv
  <2>4. served'.active /\ ~served'.stopping /\ served'.queue = <<>>
    BY <1>1, <2>1 DEF ServedStates
  <2>5. Ordered(<<>>, <<>>, <<>>, 0, 0)
    BY DEF Ordered
  <2>6. Streaming(0)'
    BY <2>1, <2>3, <2>4, <2>5 DEF Streaming, InOrder, Untouched
  <2> QED BY <2>1, <2>3, <2>6 DEF PipelineInv
<1>13. CASE ServesChunk
  <2>1. /\ sender' = sender /\ sender.at # "idle" /\ toBridge # <<>>
        /\ Head(toBridge).what = "chunk" /\ toBridge' = Tail(toBridge)
        /\ toSender' = toSender /\ played' = played
        /\ served' = [served EXCEPT !.queue = Append(@, Head(toBridge).chunk)]
    <3>1. "error" \in FrameTypes
      BY DEF FrameTypes
    <3> QED BY <1>3, <1>13, <3>1 DEF ServesChunk, Serves, Tells, Connected
  <2>2. PICK stops \in {0, 1} :
           /\ Streaming(stops)
           /\ stops = 0 => sender.at \in {"chunk", "ready", "stop"}
           /\ stops = 1 => sender.at = "stopped"
    BY <2>1, UnderWay
  <2>3. /\ served'.queue = Append(served.queue, Head(toBridge).chunk)
        /\ served'.active = served.active /\ served'.stopping = served.stopping
    BY <1>1, <2>1 DEF ServedStates
  <2>4. Ordered(played, served'.queue, Tail(toBridge), sender.sent, stops)
        /\ (stops = 1 => Tail(toBridge) # <<>>)
    <3>1. /\ played \in Seq(Chunk) /\ served.queue \in Seq(Chunk)
          /\ toBridge \in Seq(RequestTypes)
      BY <1>1, <1>2 DEF ServedStates
    <3>2. sender.sent \in Nat /\ stops \in Nat
      BY <1>1, <1>2, MediaClientAssumption DEF SenderStates
    <3>3. Ordered(played, served.queue, toBridge, sender.sent, stops)
      BY <2>2 DEF Streaming, InOrder
    <3> QED BY <2>1, <2>3, <3>1, <3>2, <3>3, OrderedQueues
  <2>5. Streaming(stops)'
    BY <2>1, <2>2, <2>3, <2>4 DEF Streaming, InOrder
  <2> QED BY <2>1, <2>2, <2>4, <2>5 DEF PipelineInv
<1>14. CASE ServesStop
  <2>1. /\ sender' = sender /\ sender.at # "idle" /\ toBridge # <<>>
        /\ Head(toBridge).what = "stop" /\ toBridge' = Tail(toBridge) /\ played' = played
    BY <1>14 DEF ServesStop, Serves, Connected
  <2>2. ~Has(toSender, "error")
    <3>1. "inactive" \in FrameTypes /\ "drained" \in FrameTypes
      BY DEF FrameTypes
    <3> QED BY <1>3, <1>14, <3>1 DEF ServesStop, Tells
  <2>3. /\ sender.at = "stopped" /\ served.active /\ Tail(toBridge) = <<>>
        /\ Ordered(played, served.queue, <<>>, sender.sent, 0)
    BY <2>1, <2>2, UnderWay DEF Streaming
  <2>4. CASE served.queue = <<>>
    <3>1. ~served'.active
      BY <1>1, <1>14, <2>3, <2>4 DEF ServesStop, ServedStates
    <3> QED BY <2>1, <2>3, <3>1 DEF PipelineInv
  <2>5. CASE served.queue # <<>>
    <3>1. served'.active /\ served'.stopping /\ served'.queue = served.queue
      BY <1>1, <1>14, <2>3, <2>5 DEF ServesStop, ServedStates
    <3>2. InOrder(0)'
      BY <2>1, <2>3, <3>1 DEF InOrder
    <3> QED BY <2>1, <2>3, <3>1, <3>2 DEF PipelineInv
  <2> QED BY <2>4, <2>5
<1>15. CASE ServesClear
  <2>1. /\ sender' = sender /\ sender.at # "idle" /\ toBridge # <<>>
        /\ Head(toBridge).what = "clear" /\ toBridge' = Tail(toBridge)
        /\ toSender' = Append(toSender, "cleared") /\ played' = played
        /\ ~served'.active /\ served'.queue = <<>>
    BY <1>1, <1>15 DEF ServesClear, Serves, Tells, Connected, ServedStates
  <2>2. ~Has(toSender, "error") /\ (Has(toSender', "started") <=> Has(toSender, "started"))
    <3>1. "cleared" \in FrameTypes
      BY DEF FrameTypes
    <3> QED BY <1>3, <2>1, <3>1
  <2>3. sender.at = "cleared" /\ Untouched /\ Tail(toBridge) = <<>> /\ served.at = "serves"
    BY <2>1, <2>2, UnderWay
  <2>4. ~Has(toSender, "started")
    BY <1>2, <2>2, <2>3 DEF PipelineInv, Connected
  <2> QED BY <2>1, <2>2, <2>3, <2>4 DEF PipelineInv, Untouched
<1>16. CASE PlaysChunk
  <2>1. /\ served.active /\ served.queue # <<>> /\ UNCHANGED <<sender, toBridge>>
        /\ played' = Append(played, Head(served.queue)) /\ sender.at # "idle"
    BY <1>16 DEF PlaysChunk, Connected
  <2>2. ~Has(toSender, "error")
    <3>1. "drained" \in FrameTypes
      BY DEF FrameTypes
    <3> QED BY <1>3, <1>16, <3>1 DEF PlaysChunk, Tells
  <2>3. CASE served.stopping
    <3>1. sender.at = "stopped" /\ toBridge = <<>> /\ served.at = "serves"
          /\ Ordered(played, served.queue, <<>>, FileChunks, 0)
      BY <2>1, <2>2, <2>3, DrainsTheRest
    <3>2. CASE Len(served.queue) = 1
      <4>1. ~served'.active
        BY <1>1, <1>16, <2>3, <3>2 DEF PlaysChunk, ServedStates
      <4> QED BY <2>1, <3>1, <4>1 DEF PipelineInv
    <3>3. CASE Len(served.queue) # 1
      <4>1. served'.active /\ served'.stopping /\ served'.queue = Tail(served.queue)
        BY <1>1, <1>16, <2>1, <2>3, <3>3 DEF PlaysChunk, ServedStates
      <4>2. sender.sent = FileChunks
        BY <1>2, <3>1 DEF ReadingInv, Connected
      <4>3. InOrder(0)'
        BY <1>1, <1>2, <2>1, <3>1, <4>1, <4>2, RestTypes, OrderedPlays DEF InOrder
      <4> QED BY <2>1, <3>1, <4>1, <4>3 DEF PipelineInv
    <3> QED BY <3>2, <3>3
  <2>4. CASE ~served.stopping
    <3>1. /\ served'.active /\ ~served'.stopping /\ served'.queue = Tail(served.queue)
          /\ served'.at = served.at
      BY <1>1, <1>16, <2>1, <2>4 DEF PlaysChunk, ServedStates
    <3>2. ASSUME NEW stops \in {0, 1}, Streaming(stops) PROVE Streaming(stops)'
      BY <1>1, <1>2, <2>1, <3>1, <3>2, OrderedPlays DEF Streaming, InOrder
    <3> QED BY <1>2, <2>1, <2>2, <2>4, <3>1, <3>2 DEF PipelineInv, Untouched
  <2> QED BY <2>3, <2>4
<1>17. CASE ReportsSpeech
  <2>1. UNCHANGED <<sender, toBridge, served, played>> /\ toSender' = Append(toSender, "speaker")
    BY <1>17 DEF ReportsSpeech, Tells
  <2>2. /\ ~Has(toSender, "error")
        /\ \A g \in {"cleared", "started"} : Has(toSender', g) <=> Has(toSender, g)
    BY <1>3, <2>1 DEF FrameTypes
  <2> QED BY <1>2, <2>1, <2>2 DEF PipelineInv, Untouched, Streaming, InOrder
<1>18. CASE BridgeCloses \/ SeesHangUp
  BY <1>18 DEF BridgeCloses, SeesHangUp, Apart
<1>19. CASE DecoderWrites \/ DecoderEnds \/ UNCHANGED mediaClientVars
  BY <1>2, <1>19 DEF DecoderWrites, DecoderEnds, mediaClientVars, PipelineInv, Untouched, Streaming,
     InOrder
<1> QED BY <1>5, <1>6, <1>7, <1>8, <1>9, <1>10, <1>11, <1>12, <1>13, <1>14, <1>15, <1>16, <1>17,
        <1>18, <1>19 DEF MediaClientNext

\* The strengthened invariant is inductive.
LEMMA SentStep ==
    MediaClientTypeOK /\ SentInv /\ [MediaClientNext]_mediaClientVars
        => MediaClientTypeOK' /\ SentInv'
<1> SUFFICES ASSUME MediaClientTypeOK, SentInv, [MediaClientNext]_mediaClientVars
             PROVE  MediaClientTypeOK' /\ SentInv'
  OBVIOUS
<1>1. ReadingInv' /\ ServedInv' /\ VerdictInv' /\ PipelineInv'
  BY ReadingStep, ServedStep, VerdictStep, PipelineStep DEF SentInv
<1>2. ReadingInv /\ ServedInv
  BY DEF SentInv
<1>3. MediaClientTypeOK'
  <2>1. CASE UNCHANGED mediaClientVars
    BY <2>1 DEF mediaClientVars, MediaClientTypeOK, QueueOK
  <2>2. CASE \/ \E clear \in BOOLEAN : SendBegins(clear)
             \/ ReadsWav \/ ForksDecoder \/ DecoderWrites \/ DecoderEnds \/ ReadsDecoded
             \/ ReapsDecoder
    BY <2>2, ReadingFileType
  <2>3. CASE \/ ConnectsMedia \/ SendsClear \/ SendsStart \/ SendsChunk \/ SendsStop
             \/ DrainsReady \/ FramesLate \/ WaitsForFrame \/ SendFails
    BY <1>2, <2>3, SendingType
  <2>4. CASE \/ ServesStart \/ ServesChunk \/ ServesStop \/ ServesClear
             \/ PlaysChunk \/ ReportsSpeech \/ BridgeCloses \/ SeesHangUp
    BY <1>2, <2>4, ServingType
  <2> QED BY <2>1, <2>2, <2>3, <2>4 DEF MediaClientNext
<1> QED BY <1>1, <1>3 DEF SentInv

\* A command that sends a file always has its types, and its requests, its chunks
\* and the bridge's answers under way in the order that SentInv says.
THEOREM MediaClientInvHolds == MediaClientSpec => [](MediaClientTypeOK /\ SentInv)
<1>1. MediaClientInit => MediaClientTypeOK /\ SentInv
  BY SentInit
<1> QED BY <1>1, SentStep, PTL DEF MediaClientSpec

\* A command that reports success has played its file: every chunk, in order and
\* once, however long the file, however small the bridge's queue, and whatever of it
\* the bridge refuses, loses or is late with.
THEOREM WhatIsSentIsPlayed == MediaClientSpec => []SentIsPlayed
<1>1. MediaClientTypeOK /\ SentInv => SentIsPlayed
  <2> SUFFICES ASSUME MediaClientTypeOK, SentInv, sender.said \in {"drained", "inactive"}
               PROVE  sender.said = "drained" /\ played = [i \in Chunk |-> i]
    BY DEF SentIsPlayed
  <2>1. sender.said = "drained" /\ Whole
    BY DEF SentInv, VerdictInv
  <2>2. played \in Seq(Chunk) /\ FileChunks \in Nat
    BY MediaClientAssumption DEF MediaClientTypeOK
  <2>3. DOMAIN played = 1..FileChunks
    BY <2>1, <2>2 DEF Whole
  <2>4. played = [i \in DOMAIN played |-> played[i]]
    BY <2>2
  <2> QED BY <2>1, <2>3, <2>4 DEF Whole, Chunk
<1> QED BY <1>1, MediaClientInvHolds, PTL

-----------------------------------------------------------------------------
(* The ends of a playback (MCPlaybackEnds): the host apart, the sender apart,  *)
(* or host and bridge together while the plugin is unloaded.  What was proved   *)
(* of each holds of the run, because its steps are theirs.  For the last, the   *)
(* proofs are those of MediaPlayback_proofs, with the events that may happen    *)
(* during an unload; the first lemmas say that they are about the same steps.   *)

UnloadProofs == INSTANCE MediaPlayback_proofs WITH Happens <- UnloadHappens

\* What the bridge sends to a consumer that it takes in.
LEMMA SameGreeting ==
    /\ Unload!Replays = UnloadProofs!Replays
    /\ \A order : Unload!Greeting(order) = UnloadProofs!Greeting(order)
<1>1. Unload!Replays = UnloadProofs!Replays
  BY DEF Unload!Replays, UnloadProofs!Replays, Unload!Cardinality, UnloadProofs!Cardinality
<1>2. \A order : Unload!Greeting(order) = UnloadProofs!Greeting(order)
  <2>1. /\ Unload!hello_frame = UnloadProofs!hello_frame
        /\ Unload!status_frame = UnloadProofs!status_frame
        /\ \A s, b : Unload!speaker_frame(s, b) = UnloadProofs!speaker_frame(s, b)
    BY DEF Unload!Frame, UnloadProofs!Frame, Unload!hello_frame, UnloadProofs!hello_frame,
        Unload!status_frame, UnloadProofs!status_frame, Unload!speaker_frame,
        UnloadProofs!speaker_frame
  <2> QED BY <2>1 DEF Unload!Greeting, UnloadProofs!Greeting
<1> QED BY <1>1, <1>2

\* MediaBridgeServer::start.
LEMMA SameStart == Unload!Start => UnloadProofs!Start
BY
  DEF Unload!Start, UnloadProofs!Start

\* The accept thread.
LEMMA SameAccepting == Unload!Accepting => UnloadProofs!Accepting
<1>1. Unload!AcceptInstall => UnloadProofs!AcceptInstall
  BY SameGreeting
  DEF Unload!AcceptGoes, UnloadProofs!AcceptGoes, Unload!AcceptInstall,
      UnloadProofs!AcceptInstall
<1>2. Unload!AcceptLoop => UnloadProofs!AcceptLoop
  BY
  DEF Unload!AcceptGoes, UnloadProofs!AcceptGoes, Unload!AcceptLoop,
      UnloadProofs!AcceptLoop, Unload!clientVars, UnloadProofs!clientVars
<1>3. \A f : Unload!AcceptConn(f) => UnloadProofs!AcceptConn(f)
  BY
  DEF Unload!AcceptConn, UnloadProofs!AcceptConn, Unload!Statements,
      UnloadProofs!Statements, Unload!Unheard, UnloadProofs!Unheard, Unload!clientVars,
      UnloadProofs!clientVars
<1>4. Unload!AcceptFails => UnloadProofs!AcceptFails
  BY
  DEF Unload!AcceptFails, UnloadProofs!AcceptFails, Unload!AcceptGoes,
      UnloadProofs!AcceptGoes, Unload!clientVars, UnloadProofs!clientVars
<1>5. Unload!AcceptBusy => UnloadProofs!AcceptBusy
  BY
  DEF Unload!AcceptBusy, UnloadProofs!AcceptBusy, Unload!clientVars, UnloadProofs!clientVars
<1>6. Unload!AcceptFree => UnloadProofs!AcceptFree
  BY
  DEF Unload!AcceptFree, UnloadProofs!AcceptFree, Unload!AcceptGoes,
      UnloadProofs!AcceptGoes, Unload!clientVars, UnloadProofs!clientVars
<1>7. Unload!AcceptSpawn => UnloadProofs!AcceptSpawn
  BY
  DEF Unload!AcceptSpawn, UnloadProofs!AcceptSpawn, Unload!clientVars,
      UnloadProofs!clientVars
<1> QED
  BY <1>1, <1>2, <1>3, <1>4, <1>5, <1>6, <1>7 DEF Unload!Accepting, UnloadProofs!Accepting

\* The reader thread.
LEMMA SameReading == Unload!Reading => UnloadProofs!Reading
BY
  DEF Unload!Consume, UnloadProofs!Consume, Unload!DeactivateReturns,
      UnloadProofs!DeactivateReturns, Unload!Droppable, UnloadProofs!Droppable,
      Unload!Enqueued, UnloadProofs!Enqueued, Unload!Frame, UnloadProofs!Frame, Unload!Goes,
      UnloadProofs!Goes, Unload!Invoke, UnloadProofs!Invoke, Unload!NoPlayback,
      UnloadProofs!NoPlayback, Unload!Notify, UnloadProofs!Notify, Unload!ReadChunk,
      UnloadProofs!ReadChunk, Unload!ReadClear, UnloadProofs!ReadClear, Unload!ReadEof,
      UnloadProofs!ReadEof, Unload!ReadInvalid, UnloadProofs!ReadInvalid, Unload!ReadStart,
      UnloadProofs!ReadStart, Unload!ReadStatus, UnloadProofs!ReadStatus, Unload!ReadStop,
      UnloadProofs!ReadStop, Unload!ReaderLoop, UnloadProofs!ReaderLoop, Unload!Reading,
      UnloadProofs!Reading, Unload!Reads, UnloadProofs!Reads, Unload!Replies,
      UnloadProofs!Replies, Unload!Results, UnloadProofs!Results, Unload!RoomToCall,
      UnloadProofs!RoomToCall, Unload!StartReturns, UnloadProofs!StartReturns,
      Unload!clientVars, UnloadProofs!clientVars, Unload!error_frame,
      UnloadProofs!error_frame, Unload!playback_started_frame,
      UnloadProofs!playback_started_frame, Unload!playback_stopped_frame,
      UnloadProofs!playback_stopped_frame, Unload!status_frame, UnloadProofs!status_frame

\* handle_client_disconnect, by the reader or the writer.
LEMMA SameDisconnecting == \A t : Unload!Disconnecting(t) => UnloadProofs!Disconnecting(t)
BY
  DEF Unload!Consume, UnloadProofs!Consume, Unload!DisconnectClose,
      UnloadProofs!DisconnectClose, Unload!DisconnectLock, UnloadProofs!DisconnectLock,
      Unload!DisconnectReturns, UnloadProofs!DisconnectReturns, Unload!Disconnecting,
      UnloadProofs!Disconnecting, Unload!Exits, UnloadProofs!Exits, Unload!Goes,
      UnloadProofs!Goes, Unload!Invoke, UnloadProofs!Invoke, Unload!NoPlayback,
      UnloadProofs!NoPlayback, Unload!NoThread, UnloadProofs!NoThread, Unload!Notify,
      UnloadProofs!Notify, Unload!Results, UnloadProofs!Results, Unload!Statements,
      UnloadProofs!Statements, Unload!Unheard, UnloadProofs!Unheard, Unload!clientVars,
      UnloadProofs!clientVars

\* The writer thread.
LEMMA SameWriting == Unload!Writing => UnloadProofs!Writing
BY
  DEF Unload!Exits, UnloadProofs!Exits, Unload!Frame, UnloadProofs!Frame, Unload!Goes,
      UnloadProofs!Goes, Unload!Learns, UnloadProofs!Learns, Unload!NoThread,
      UnloadProofs!NoThread, Unload!Statements, UnloadProofs!Statements, Unload!WriterFails,
      UnloadProofs!WriterFails, Unload!WriterPops, UnloadProofs!WriterPops,
      Unload!WriterQuits, UnloadProofs!WriterQuits, Unload!WriterSleeps,
      UnloadProofs!WriterSleeps, Unload!WriterWrites, UnloadProofs!WriterWrites,
      Unload!Writing, UnloadProofs!Writing, Unload!clientVars, UnloadProofs!clientVars,
      Unload!hello_frame, UnloadProofs!hello_frame

\* TeamSpeak's callback threads, which publish speakers and voice.
LEMMA SamePublishing == Unload!Publishing => UnloadProofs!Publishing
BY
  DEF Unload!AudioBegin, UnloadProofs!AudioBegin, Unload!AudioEnd, UnloadProofs!AudioEnd,
      Unload!Droppable, UnloadProofs!Droppable, Unload!EnqueueIfConnected,
      UnloadProofs!EnqueueIfConnected, Unload!Enqueued, UnloadProofs!Enqueued, Unload!Frame,
      UnloadProofs!Frame, Unload!Notify, UnloadProofs!Notify, Unload!Publishing,
      UnloadProofs!Publishing, Unload!RoomToCall, UnloadProofs!RoomToCall,
      Unload!audio_frame, UnloadProofs!audio_frame, Unload!clientVars,
      UnloadProofs!clientVars, Unload!enqueue_frame_locked,
      UnloadProofs!enqueue_frame_locked, Unload!publish_speaker_start,
      UnloadProofs!publish_speaker_start, Unload!publish_speaker_stop,
      UnloadProofs!publish_speaker_stop, Unload!speaker_frame, UnloadProofs!speaker_frame

\* MediaBridgeServer::stop.
LEMMA SameStopping == Unload!Stopping => UnloadProofs!Stopping
BY
  DEF Unload!Consume, UnloadProofs!Consume, Unload!HungUp, UnloadProofs!HungUp,
      Unload!Invoke, UnloadProofs!Invoke, Unload!NoPlayback, UnloadProofs!NoPlayback,
      Unload!Notify, UnloadProofs!Notify, Unload!Results, UnloadProofs!Results,
      Unload!StopBegin, UnloadProofs!StopBegin, Unload!StopGoes, UnloadProofs!StopGoes,
      Unload!StopJoins, UnloadProofs!StopJoins, Unload!StopRequest,
      UnloadProofs!StopRequest, Unload!StopReset, UnloadProofs!StopReset,
      Unload!StopReturns, UnloadProofs!StopReturns, Unload!StopShutdown,
      UnloadProofs!StopShutdown, Unload!Stopping, UnloadProofs!Stopping, Unload!clientVars,
      UnloadProofs!clientVars

\* A consumer that hangs up.
LEMMA SamePeerHangsUp == \A f : Unload!PeerHangsUp(f) => UnloadProofs!PeerHangsUp(f)
BY
  DEF Unload!HungUp, UnloadProofs!HungUp, Unload!PeerHangsUp, UnloadProofs!PeerHangsUp,
      Unload!clientVars, UnloadProofs!clientVars

\* The host: activations, ends of sessions, capture threads, disconnect, shutdown.
LEMMA SameHost == Unload!Host!HostNext => UnloadProofs!Host!HostNext
BY
  DEF Unload!Host!ActivateAssigned, UnloadProofs!Host!ActivateAssigned,
      Unload!Host!ActivateBegin, UnloadProofs!Host!ActivateBegin, Unload!Host!ActivateCheck,
      UnloadProofs!Host!ActivateCheck, Unload!Host!ActivateCommit,
      UnloadProofs!Host!ActivateCommit, Unload!Host!ActivateJoined,
      UnloadProofs!Host!ActivateJoined, Unload!Host!Activating,
      UnloadProofs!Host!Activating, Unload!Host!AfterFill, UnloadProofs!Host!AfterFill,
      Unload!Host!AfterJoin, UnloadProofs!Host!AfterJoin, Unload!Host!Answer,
      UnloadProofs!Host!Answer, Unload!Host!CaptureLoop, UnloadProofs!Host!CaptureLoop,
      Unload!Host!CaptureProcess, UnloadProofs!Host!CaptureProcess, Unload!Host!CustomClose,
      UnloadProofs!Host!CustomClose, Unload!Host!CustomFlags, UnloadProofs!Host!CustomFlags,
      Unload!Host!CustomOpen, UnloadProofs!Host!CustomOpen, Unload!Host!DeactivateBegin,
      UnloadProofs!Host!DeactivateBegin, Unload!Host!DeactivateJoined,
      UnloadProofs!Host!DeactivateJoined, Unload!Host!DeactivateLock,
      UnloadProofs!Host!DeactivateLock, Unload!Host!Deactivating,
      UnloadProofs!Host!Deactivating, Unload!Host!Disconnected,
      UnloadProofs!Host!Disconnected, Unload!Host!Ends, UnloadProofs!Host!Ends,
      Unload!Host!Goes, UnloadProofs!Host!Goes, Unload!Host!HostNext,
      UnloadProofs!Host!HostNext, Unload!Host!HostThreads, UnloadProofs!Host!HostThreads,
      Unload!Host!Idle, UnloadProofs!Host!Idle, Unload!Host!Joined,
      UnloadProofs!Host!Joined, Unload!Host!MutexFree, UnloadProofs!Host!MutexFree,
      Unload!Host!NoSession, UnloadProofs!Host!NoSession, Unload!Host!Requests,
      UnloadProofs!Host!Requests, Unload!Host!RestoreClose, UnloadProofs!Host!RestoreClose,
      Unload!Host!RestoreError, UnloadProofs!Host!RestoreError, Unload!Host!RestoreFlags,
      UnloadProofs!Host!RestoreFlags, Unload!Host!RestoreOpen,
      UnloadProofs!Host!RestoreOpen, Unload!Host!Returns, UnloadProofs!Host!Returns,
      Unload!Host!ShutdownBegin, UnloadProofs!Host!ShutdownBegin,
      Unload!Host!ShutdownJoined, UnloadProofs!Host!ShutdownJoined,
      Unload!Host!ShutdownUnregister, UnloadProofs!Host!ShutdownUnregister,
      Unload!Host!Takes, UnloadProofs!Host!Takes, Unload!Host!Threads,
      UnloadProofs!Host!Threads, Unload!Host!ensure_custom_capture_device_registered,
      UnloadProofs!Host!ensure_custom_capture_device_registered,
      Unload!Host!snapshot_media_playback_session,
      UnloadProofs!Host!snapshot_media_playback_session

\* A capture thread that asks the bridge for samples.
LEMMA SameTicks == \A c : Unload!CaptureTicks(c) => UnloadProofs!CaptureTicks(c)
BY
  DEF Unload!CaptureTicks, UnloadProofs!CaptureTicks, Unload!Droppable,
      UnloadProofs!Droppable, Unload!EnqueueIfConnected, UnloadProofs!EnqueueIfConnected,
      Unload!Enqueued, UnloadProofs!Enqueued, Unload!Frame, UnloadProofs!Frame,
      Unload!Host!AfterFill, UnloadProofs!Host!AfterFill, Unload!Host!CaptureFills,
      UnloadProofs!Host!CaptureFills, Unload!NoPlayback, UnloadProofs!NoPlayback,
      Unload!Notify, UnloadProofs!Notify, Unload!Rest, UnloadProofs!Rest, Unload!bridgeVars,
      UnloadProofs!bridgeVars, Unload!clientVars, UnloadProofs!clientVars,
      Unload!enqueue_frame_locked, UnloadProofs!enqueue_frame_locked,
      Unload!fill_playback_samples, UnloadProofs!fill_playback_samples,
      Unload!playback_stopped_frame, UnloadProofs!playback_stopped_frame

\* The host and the bridge of the run, while the plugin is unloaded, are the ones
\* that the proofs about the two together are about.
LEMMA SameSystem ==
    /\ Unload!SystemInit => UnloadProofs!SystemInit
    /\ Unload!SystemNext => UnloadProofs!SystemNext
    /\ Unload!systemVars = UnloadProofs!systemVars
<1>1. Unload!SystemInit => UnloadProofs!SystemInit
  BY
  DEF Unload!CallInit, UnloadProofs!CallInit, Unload!Frame, UnloadProofs!Frame,
      Unload!Host!CallInit, UnloadProofs!Host!CallInit, Unload!Host!HostThreads,
      UnloadProofs!Host!HostThreads, Unload!Host!Idle, UnloadProofs!Host!Idle,
      Unload!Host!Init, UnloadProofs!Host!Init, Unload!Host!NoSession,
      UnloadProofs!Host!NoSession, Unload!Host!Threads, UnloadProofs!Host!Threads,
      Unload!Init, UnloadProofs!Init, Unload!NoPlayback, UnloadProofs!NoPlayback,
      Unload!NoThread, UnloadProofs!NoThread, Unload!Statements, UnloadProofs!Statements,
      Unload!SystemInit, UnloadProofs!SystemInit, Unload!Unheard, UnloadProofs!Unheard,
      Unload!hello_frame, UnloadProofs!hello_frame
<1>2. Unload!systemVars = UnloadProofs!systemVars
  BY
  DEF Unload!hostVars, UnloadProofs!hostVars, Unload!systemVars, UnloadProofs!systemVars,
      Unload!vars, UnloadProofs!vars
<1>3. Unload!BridgeNext => UnloadProofs!BridgeNext
  BY SameStart, SameAccepting, SameReading, SameDisconnecting, SameWriting, SamePublishing,
     SameStopping, SamePeerHangsUp
  DEF Unload!BridgeNext, UnloadProofs!BridgeNext
<1>4. Unload!BridgeStep => UnloadProofs!BridgeStep
  BY <1>3 DEF Unload!BridgeStep, UnloadProofs!BridgeStep, Unload!hostVars, UnloadProofs!hostVars
<1>5. Unload!HostStep => UnloadProofs!HostStep
  BY SameHost DEF Unload!HostStep, UnloadProofs!HostStep, Unload!bridgeVars, UnloadProofs!bridgeVars
<1>6. Unload!Overlap <=> UnloadProofs!Overlap
  BY
  DEF Unload!Host!HostThreads, UnloadProofs!Host!HostThreads, Unload!Host!Threads,
      UnloadProofs!Host!Threads, Unload!Overlap, UnloadProofs!Overlap
<1>7. Unload!Overlap' <=> UnloadProofs!Overlap'
  BY
  DEF Unload!Host!HostThreads, UnloadProofs!Host!HostThreads, Unload!Host!Threads,
      UnloadProofs!Host!Threads, Unload!Overlap, UnloadProofs!Overlap
<1>8. Unload!SystemNext => UnloadProofs!SystemNext
  BY <1>4, <1>5, <1>6, <1>7, SameTicks
  DEF Unload!SystemNext, UnloadProofs!SystemNext, Unload!Recorded, UnloadProofs!Recorded
<1> QED BY <1>1, <1>2, <1>8

\* What the proofs take the constants for is so of those of the run.
LEMMA UnloadAssumed ==
    /\ UnloadProofs!BridgeAssumption /\ UnloadProofs!BridgeCallers
    /\ UnloadProofs!SystemAssumption
BY EndsAssumption
DEF EndsAssumption, Unload!BridgeAssumption, UnloadProofs!BridgeAssumption, Unload!BridgeCallers,
    UnloadProofs!BridgeCallers, Unload!SystemAssumption, UnloadProofs!SystemAssumption,
    Unload!Host!PlaybackAssumption, UnloadProofs!Host!PlaybackAssumption,
    Unload!Host!HostEvents, UnloadProofs!Host!HostEvents, Unload!AllCommands,
    UnloadProofs!AllCommands, Unload!BridgeEvents, UnloadProofs!BridgeEvents,
    Unload!IsFiniteSet, UnloadProofs!IsFiniteSet

endsVars == <<playbackVars, bridgeOnlyVars, mediaClientVars, end>>

\* A run of the ends is a run of the sender; and one of the host alone, or of host
\* and bridge together.
THEOREM EndsAreKept ==
    EndsSpec => /\ MediaClientSpec
                /\ end # "unload" => Spec
                /\ end = "unload" => UnloadProofs!SystemSpec
<1> DEFINE Unloads == end = "unload"
<1>1. EndsInit => /\ MediaClientInit
                  /\ ~Unloads => Init
                  /\ Unloads => UnloadProofs!SystemInit
  BY SameSystem DEF EndsInit
<1>2. [EndsNext]_endsVars => [MediaClientNext]_mediaClientVars
  BY DEF EndsNext, endsVars
<1>3. [EndsNext]_endsVars /\ ~Unloads => ~Unloads' /\ [Next]_playbackVars
  BY DEF EndsNext, endsVars
<1>4. [EndsNext]_endsVars /\ Unloads =>
          Unloads' /\ [UnloadProofs!SystemNext]_(UnloadProofs!systemVars)
  <2> SUFFICES ASSUME [EndsNext]_endsVars, Unloads
               PROVE  Unloads' /\ [UnloadProofs!SystemNext]_(UnloadProofs!systemVars)
    OBVIOUS
  <2>1. CASE UNCHANGED endsVars
    <3>1. UNCHANGED UnloadProofs!systemVars
      BY <2>1
      DEF endsVars, playbackVars, hostVars, bridgeOnlyVars, UnloadProofs!systemVars,
          UnloadProofs!hostVars, UnloadProofs!vars, UnloadProofs!clientVars
    <3> QED BY <2>1, <3>1 DEF endsVars
  <2>2. CASE EndsNext
    BY <2>2, SameSystem DEF EndsNext
  <2> QED BY <2>1, <2>2
<1>5. EndsSpec => /\ MediaClientSpec
                  /\ ~Unloads => Spec
                  /\ Unloads => UnloadProofs!SystemSpec
  <2> HIDE DEF Unloads
  <2> QED
    BY <1>1, <1>2, <1>3, <1>4, PTL
    DEF EndsSpec, endsVars, MediaClientSpec, Spec, UnloadProofs!SystemSpec
<1> QED BY <1>5

\* Host and bridge together are, for the host, one of its runs.
LEMMA UnloadHostAssumed ==
    UnloadProofs!HostProofs!PlaybackAssumption /\ UnloadProofs!HostProofs!PlaybackCallers
BY UnloadProofs!HostAssumed, UnloadAssumed, UnloadProofs!BridgeAssumption,
   UnloadProofs!BridgeCallers, UnloadProofs!SystemAssumption

LEMMA UnloadIsOfHost == UnloadProofs!SystemSpec => UnloadProofs!HostProofs!Spec
<1>1. UnloadProofs!SystemInit => UnloadProofs!HostProofs!Init
  BY UnloadProofs!SameInit, UnloadAssumed, UnloadProofs!BridgeAssumption,
     UnloadProofs!BridgeCallers, UnloadProofs!SystemAssumption DEF UnloadProofs!SystemInit
<1>2. UnloadProofs!SystemSpec => []UnloadProofs!SystemInv
  BY UnloadProofs!SystemCorrect, UnloadAssumed, UnloadProofs!BridgeAssumption,
     UnloadProofs!BridgeCallers, UnloadProofs!SystemAssumption
<1>3. UnloadProofs!SystemInv /\ [UnloadProofs!SystemNext]_(UnloadProofs!systemVars) =>
          [UnloadProofs!HostProofs!Next]_(UnloadProofs!HostProofs!playbackVars)
  <2> SUFFICES ASSUME UnloadProofs!SystemInv, [UnloadProofs!SystemNext]_(UnloadProofs!systemVars)
               PROVE  [UnloadProofs!HostProofs!Next]_(UnloadProofs!HostProofs!playbackVars)
    OBVIOUS
  <2> QED
    BY UnloadProofs!HostSteps, UnloadAssumed, UnloadProofs!BridgeAssumption,
       UnloadProofs!BridgeCallers, UnloadProofs!SystemAssumption
<1>4. UnloadProofs!SystemSpec => UnloadProofs!HostProofs!Spec
  BY <1>1, <1>2, <1>3, PTL DEF UnloadProofs!SystemSpec, UnloadProofs!HostProofs!Spec
<1> QED BY <1>4

\* Where no disconnect happens while the plugin is unloaded: once stop() is through
\* the host has no session and no capture thread left; and host and sender stay
\* within their types, in each of the runs.
THEOREM EndsLeaveHostAtRest ==
    ASSUME "disconnect" \notin UnloadHappens
    PROVE  EndsSpec => []HostAtRest
<1> DEFINE Unloads == end = "unload"
<1>1. UnloadProofs!SystemSpec => []UnloadProofs!HostAtRest
  BY UnloadProofs!StopLeavesHostAtRest, UnloadAssumed, UnloadProofs!BridgeAssumption,
     UnloadProofs!BridgeCallers, UnloadProofs!SystemAssumption
<1>2. UnloadProofs!HostProofs!Spec => []UnloadProofs!HostProofs!TypeOK
  BY UnloadProofs!HostProofs!PlaybackTypeCorrect, UnloadHostAssumed, UnloadAssumed,
     UnloadProofs!HostProofs!PlaybackAssumption, UnloadProofs!HostProofs!PlaybackCallers,
     UnloadProofs!BridgeAssumption, UnloadProofs!BridgeCallers, UnloadProofs!SystemAssumption
<1>3. UnloadProofs!HostProofs!TypeOK => TypeOK
  BY DEF CallStates, UnloadProofs!HostProofs!CallStates, CallTypeOK,
     UnloadProofs!HostProofs!CallTypeOK, HostThreads, UnloadProofs!HostProofs!HostThreads,
     Inputs, UnloadProofs!HostProofs!Inputs, Requests, UnloadProofs!HostProofs!Requests,
     Results, UnloadProofs!HostProofs!Results, Sessions, UnloadProofs!HostProofs!Sessions,
     ThreadPcs, UnloadProofs!HostProofs!ThreadPcs, ThreadStates,
     UnloadProofs!HostProofs!ThreadStates, Threads, UnloadProofs!HostProofs!Threads, TypeOK,
     UnloadProofs!HostProofs!TypeOK
<1>4. MediaClientTypeOK /\ TypeOK /\ (Unloads => UnloadProofs!HostAtRest) => HostAtRest
  BY DEF HostAtRest, Unload!HostAtRest, UnloadProofs!HostAtRest
<1>5. [EndsNext]_endsVars => (Unloads <=> Unloads')
  BY DEF EndsNext, endsVars
<1>6. MediaClientTypeOK /\ SentInv => MediaClientTypeOK
  OBVIOUS
<1>7. EndsSpec => /\ MediaClientSpec
                  /\ ~Unloads => Spec
                  /\ Unloads => UnloadProofs!SystemSpec
  BY EndsAreKept
<1> HIDE DEF Unloads
<1> QED
  BY <1>1, <1>2, <1>3, <1>4, <1>5, <1>6, <1>7, UnloadIsOfHost, PlaybackTypeCorrect,
     MediaClientInvHolds, PTL
  DEF EndsSpec, endsVars

\* In each of the runs no capture thread is joined twice or by nobody, an open session
\* is fed, no threads wait for each other in a circle, and what a command reports as
\* played was played; with whatever may happen during an unload.
THEOREM EndsAreSafe ==
    EndsSpec => [](CaptureOwnedOnce /\ ActiveHasFeeder /\ NoCircularWait /\ SentIsPlayed)
<1> DEFINE Unloads == end = "unload"
<1>1. UnloadProofs!HostProofs!Spec =>
          [](/\ UnloadProofs!HostProofs!CaptureOwnedOnce
             /\ UnloadProofs!HostProofs!ActiveHasFeeder
             /\ UnloadProofs!HostProofs!NoCircularWait)
  <2>1. UnloadProofs!HostProofs!Spec => []UnloadProofs!HostProofs!CaptureOwnedOnce
    BY UnloadProofs!HostProofs!CapturesAreOwnedOnce, UnloadHostAssumed, UnloadAssumed,
       UnloadProofs!HostProofs!PlaybackAssumption, UnloadProofs!HostProofs!PlaybackCallers,
       UnloadProofs!BridgeAssumption, UnloadProofs!BridgeCallers, UnloadProofs!SystemAssumption
  <2>2. UnloadProofs!HostProofs!Spec => []UnloadProofs!HostProofs!ActiveHasFeeder
    BY UnloadProofs!HostProofs!ActiveSessionsAreFed, UnloadHostAssumed, UnloadAssumed,
       UnloadProofs!HostProofs!PlaybackAssumption, UnloadProofs!HostProofs!PlaybackCallers,
       UnloadProofs!BridgeAssumption, UnloadProofs!BridgeCallers, UnloadProofs!SystemAssumption
  <2>3. UnloadProofs!HostProofs!Spec => []UnloadProofs!HostProofs!NoCircularWait
    BY UnloadProofs!HostProofs!JoinsDoNotDeadlock, UnloadHostAssumed, UnloadAssumed,
       UnloadProofs!HostProofs!PlaybackAssumption, UnloadProofs!HostProofs!PlaybackCallers,
       UnloadProofs!BridgeAssumption, UnloadProofs!BridgeCallers, UnloadProofs!SystemAssumption
  <2> QED BY <2>1, <2>2, <2>3, PTL
<1>2. UnloadProofs!HostProofs!CaptureOwnedOnce => CaptureOwnedOnce
  BY DEF CaptureOwnedOnce, UnloadProofs!HostProofs!CaptureOwnedOnce, HostThreads,
     UnloadProofs!HostProofs!HostThreads, Owners, UnloadProofs!HostProofs!Owners, Threads,
     UnloadProofs!HostProofs!Threads
<1>3. UnloadProofs!HostProofs!ActiveHasFeeder => ActiveHasFeeder
  BY DEF ActiveHasFeeder, UnloadProofs!HostProofs!ActiveHasFeeder
<1>4. UnloadProofs!HostProofs!NoCircularWait => NoCircularWait
  BY DEF BlockedOn, UnloadProofs!HostProofs!BlockedOn, HostThreads,
     UnloadProofs!HostProofs!HostThreads, NeedsMutex, UnloadProofs!HostProofs!NeedsMutex,
     NoCircularWait, UnloadProofs!HostProofs!NoCircularWait, Threads,
     UnloadProofs!HostProofs!Threads
<1>5. [EndsNext]_endsVars => (Unloads <=> Unloads')
  BY DEF EndsNext, endsVars
<1>6. EndsSpec => /\ MediaClientSpec
                  /\ ~Unloads => Spec
                  /\ Unloads => UnloadProofs!SystemSpec
  BY EndsAreKept
<1> HIDE DEF Unloads
<1> QED
  BY <1>1, <1>2, <1>3, <1>4, <1>5, <1>6, UnloadIsOfHost, CapturesAreOwnedOnce,
     ActiveSessionsAreFed, JoinsDoNotDeadlock, WhatIsSentIsPlayed, PTL
  DEF EndsSpec, endsVars

================================================================================
