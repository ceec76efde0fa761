------------------------------- MODULE HookStore --------------------------------
(* hooks.db and the ts processes that edit it: "events hook add" and "remove".  *)
(* A command reads the whole list, changes its copy, empties the file and writes*)
(* the copy into it.  Nothing locks the file, a write is not checked, and the   *)
(* daemon reads the file for each event (EventDaemon).                          *)
EXTENDS Naturals, FiniteSets, SequencesExt

CONSTANTS
    HookEditors,   \* the ts processes that edit the file
    MaxHooks       \* bound: hooks in the list, and numbers they are given

ASSUME MaxHooksAssumption == MaxHooks \in Nat \ {0}

VARIABLES
    hooksFile,     \* hooks.db: hooks by their ids, torn when it ends inside a record
    hookEditor,    \* the edit each process is at
    promised,      \* history: the hooks that were added and not removed, as commands
                   \* said, until hooksDisturbed
    hooksDisturbed \* history: edits overlapped, or one did not write all of its list

hookVars == <<hooksFile, hookEditor, promised, hooksDisturbed>>

Ids == 1..MaxHooks
Lists == UNION {[1..n -> Ids] : n \in 0..MaxHooks}
AtRest == [at |-> "idle", hooks |-> <<>>, kept |-> <<>>, written |-> 0]

HookTypeOK ==
    /\ hooksFile \in [hooks : Lists, torn : BOOLEAN]
    /\ hookEditor \in [HookEditors -> [at : {"idle", "open", "write"}, hooks : Lists,
                                      kept : Lists, written : 0..MaxHooks]]
    /\ promised \in Lists
    /\ hooksDisturbed \in BOOLEAN

HookInit ==
    /\ hooksFile = [hooks |-> <<>>, torn |-> FALSE]
    /\ hookEditor = [e \in HookEditors |-> AtRest]
    /\ promised = <<>>
    /\ hooksDisturbed = FALSE

--------------------------------------------------------------------------------

\* Mutant: one more than the hooks there are.
CountedHookId(hooks) == Len(hooks) + 1

\* One more than the largest number in use, so a removed hook's may come again.
next_hook_id(hooks) == 1 + Max({0} \cup ToSet(hooks))

\* The hooks in their order, but those with this number.
Without(hooks, id) ==
    LET kept[n \in 0..Len(hooks)] ==
          IF n = 0 THEN <<>>
          ELSE IF hooks[n] = id THEN kept[n - 1] ELSE Append(kept[n - 1], hooks[n])
    IN  kept[Len(hooks)]

\* load_hooks, the change, and save_hooks to come: the command holds its new list,
\* and what its success will promise.
Edits(e, hooks, kept) ==
    /\ hookEditor[e].at = "idle"
    /\ ~hooksFile.torn
    /\ hooksDisturbed' = (hooksDisturbed \/ \E o \in HookEditors : hookEditor[o].at # "idle")
    /\ hookEditor' = [hookEditor EXCEPT ![e] =
          [at |-> "open", hooks |-> hooks, written |-> 0,
           kept |-> IF hooksDisturbed' THEN <<>> ELSE kept]]
    /\ UNCHANGED <<hooksFile, promised>>

HookAdds(e) ==
    LET id == next_hook_id(hooksFile.hooks) IN
    /\ id \in Ids
    /\ Len(hooksFile.hooks) < MaxHooks
    /\ Edits(e, Append(hooksFile.hooks, id), Append(promised, id))

\* The hook that was given this number is promised no longer, and no other.
HookRemoves(e, id) ==
    /\ id \in ToSet(hooksFile.hooks)
    /\ Edits(e, Without(hooksFile.hooks, id),
             IF id \in ToSet(promised) THEN RemoveFirst(promised, id) ELSE promised)

\* load_hooks finds a record that is none: every command is refused from now on.
HooksRefused(e) ==
    /\ hookEditor[e].at = "idle"
    /\ hooksFile.torn
    /\ UNCHANGED hookVars

\* The open empties the file, whoever else writes it.
HooksOpened(e) ==
    /\ hookEditor[e].at = "open"
    /\ hooksFile' = [hooks |-> <<>>, torn |-> FALSE]
    /\ hookEditor' = [hookEditor EXCEPT ![e].at = "write"]
    /\ UNCHANGED <<promised, hooksDisturbed>>

\* What the file is once the first n hooks of e, and part of the next if torn,
\* are in it: what another process wrote stays behind them, and a file that
\* was emptied since e last wrote begins with a hole.
Overwritten(e, n, torn) ==
    LET mine == SubSeq(hookEditor[e].hooks, 1, n)
        theirs == hooksFile.hooks
    IN  {[hooks |-> mine, torn |-> torn]}
        \cup (IF theirs = SubSeq(hookEditor[e].hooks, 1, hookEditor[e].written) THEN {}
              ELSE {[hooks |-> mine, torn |-> TRUE]}
                   \cup {[hooks |-> mine \o SubSeq(theirs, k, Len(theirs)), torn |-> hooksFile.torn] :
                           k \in (n + 1)..Len(theirs)})

\* A write of the stream's buffer, up to the end of the list or not.
HooksWritten(e, n, torn) ==
    /\ hookEditor[e].at = "write"
    /\ n \in hookEditor[e].written..Len(hookEditor[e].hooks)
    /\ torn => n < Len(hookEditor[e].hooks)
    /\ hooksFile' \in Overwritten(e, n, torn)
    /\ hookEditor' = [hookEditor EXCEPT ![e].written = n]
    /\ UNCHANGED <<promised, hooksDisturbed>>

\* The stream is closed and the command reports its success.  A write that
\* failed went unnoticed.
HooksClosed(e) ==
    /\ hookEditor[e].at = "write"
    /\ hooksDisturbed' = (hooksDisturbed \/ hookEditor[e].written < Len(hookEditor[e].hooks))
    /\ promised' = IF hooksDisturbed' THEN <<>> ELSE hookEditor[e].kept
    /\ hookEditor' = [hookEditor EXCEPT ![e] = AtRest]
    /\ UNCHANGED hooksFile

\* The process is killed, or the file cannot be opened.
HookEditorEnds(e) ==
    /\ hookEditor[e].at # "idle"
    /\ hookEditor' = [hookEditor EXCEPT ![e] = AtRest]
    /\ hooksDisturbed' = (hooksDisturbed \/ hookEditor[e].at = "write")
    /\ UNCHANGED <<hooksFile, promised>>

HookNext ==
    \E e \in HookEditors :
       \/ HookAdds(e) \/ HooksRefused(e)
       \/ HooksOpened(e) \/ HooksClosed(e) \/ HookEditorEnds(e)
       \/ \E id \in Ids : HookRemoves(e, id)
       \/ \E n \in 0..MaxHooks, torn \in BOOLEAN : HooksWritten(e, n, torn)

HookSpec == HookInit /\ [][HookNext]_hookVars

--------------------------------------------------------------------------------

\* A hook that was added is in the file until it is removed by its number, which
\* no other hook has: each list that no command is changing is the one that the
\* commands have promised.  Nothing is claimed once edits overlapped, a command
\* died while it wrote or a write failed: the code orders and checks none of them.
HooksKept ==
    ~hooksDisturbed /\ (\A e \in HookEditors : hookEditor[e].at # "write") =>
       /\ hooksFile = [hooks |-> promised, torn |-> FALSE]
       /\ IsInjective(promised)

================================================================================
