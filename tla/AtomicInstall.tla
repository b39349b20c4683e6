---------------------------- MODULE AtomicInstall ----------------------------
(***************************************************************************)
(* What the recoverable Registry install promises its users (README.md,    *)
(* "Registry data, release evidence, and provenance are staged and         *)
(* replaced as one recoverable install transaction"): the three installed  *)
(* targets are one value, `set`.  An install replaces all three at once    *)
(* by one downloaded snapshot, or changes nothing; a command that loads    *)
(* the Registry reads all three from the same instant.  Crashes, failed    *)
(* renames, rollbacks and recoveries do not exist at this level.           *)
(***************************************************************************)

CONSTANTS
    Target,     \* the installed targets
    Snapshots,  \* what a download can deliver
    Absent      \* a target that does not exist

VARIABLES
    set,   \* what is installed, target by target
    view   \* what the last command loaded

Content == Snapshots \cup {Absent}

Init == /\ set \in [Target -> Content]
        /\ view = set

\* A successful install: every target is the new snapshot.
Install(s) == /\ set' = [t \in Target |-> s]
              /\ UNCHANGED view

\* A command reads the installed set.
Load == /\ view' = set
        /\ UNCHANGED set

Next == \/ \E s \in Snapshots : Install(s)
        \/ Load

Spec == Init /\ [][Next]_<<set, view>>
=============================================================================
