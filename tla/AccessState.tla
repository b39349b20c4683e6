----------------------------- MODULE AccessState -----------------------------
(***************************************************************************)
(* `datapan access record` (internal/cli/access_state.go: accessRecord):   *)
(* one file, .datapan/access-state.json, holds what the user observed      *)
(* about access to each subject.  A command reads the file, merges its     *)
(* observation into one record and replaces the file by renaming a         *)
(* temporary file onto it (writeAtomicJSON).                               *)
(*                                                                         *)
(* Nothing excludes two commands from one another: the file that is        *)
(* replaced need not be the file that was read.                            *)
(*                                                                         *)
(* An observation is represented by its time; the observed state itself    *)
(* decides nothing.  --observed-at may name a fraction of a second, which   *)
(* the file does not keep: it has the whole second (time.RFC3339).  What    *)
(* was observed when is kept beside it, for the properties.                 *)
(***************************************************************************)
EXTENDS Naturals

CONSTANTS
    Process,   \* the commands that may run at the same time
    Subject,   \* the access subjects
    Given,     \* the sets of fields that a command may be given
    Observable \* the times that a command may be given

\* The three observations of a localAccessRecord.
Field == {"application", "quota", "rate_limit"}

ConstantsAssumption ==
    /\ Subject # {}
    /\ Given \subseteq SUBSET Field \ {{}}
    /\ Observable \subseteq [second : Nat \ {0}, fraction : Nat]

\* time.Time.Before
Earlier(t, u) ==
    \/ t.second < u.second
    \/ t.second = u.second /\ t.fraction < u.fraction

\* Format(time.RFC3339)
WholeSecond(t) == [t EXCEPT !.fraction = 0]

Never == [second |-> 0, fraction |-> 0]       \* earlier than every time observed

Time == Observable \cup {Never}

\* What the file has of an observation, and when it was made.
Observation(t) == [stored |-> WholeSecond(t), made |-> t]

Record == [Field -> {Observation(t) : t \in Time}]
Unknown == [f \in Field |-> Observation(Never)]  \* the record of a subject that has none

VARIABLES
    file,    \* the records of access-state.json
    pc,      \* per command: "idle", "reading", "writing"
    args,    \* per command: its subject, the fields given, --observed-at
    read     \* per command: the file as readLocalAccessState returned it

vars == <<file, pc, args, read>>

Empty == [s \in Subject |-> Unknown]
NoArgs == [subject |-> CHOOSE s \in Subject : TRUE, fields |-> {}, observed |-> Never]

TypeOK ==
    /\ file \in [Subject -> Record]
    /\ pc \in [Process -> {"idle", "reading", "writing"}]
    /\ args \in [Process -> [subject : Subject, fields : SUBSET Field, observed : Time]]
    /\ read \in [Process -> [Subject -> Record]]

Init ==
    /\ file = Empty
    /\ pc = [p \in Process |-> "idle"]
    /\ args = [p \in Process |-> NoArgs]
    /\ read = [p \in Process |-> Empty]

-----------------------------------------------------------------------------
(* updateAccessObservation *)

PredatesAll(record, a) ==   \* mutant: one field that does not predate carries the others
    \A f \in a.fields : Earlier(a.observed, record[f].stored)

\* The evidence predates what is stored for one of the fields given.
Predates(record, a) == \E f \in a.fields : Earlier(a.observed, record[f].stored)

MergeAllFields(record, a) ==   \* mutant: fields that were not given are overwritten
    [f \in Field |-> Observation(a.observed)]

Merge(record, a) ==
    [f \in Field |-> IF f \in a.fields THEN Observation(a.observed) ELSE record[f]]

-----------------------------------------------------------------------------
\* Usage errors end the command before it touches the file: at least one
\* field is given, and the time parses.
Begin(p) ==
    /\ pc[p] = "idle"
    /\ \E s \in Subject, fs \in Given, t \in Observable :
          args' = [args EXCEPT ![p] = [subject |-> s, fields |-> fs, observed |-> t]]
    /\ pc' = [pc EXCEPT ![p] = "reading"]
    /\ UNCHANGED <<file, read>>

\* The command ends; nothing of it is left but the file.
End(p) ==
    /\ pc' = [pc EXCEPT ![p] = "idle"]
    /\ args' = [args EXCEPT ![p] = NoArgs]
    /\ read' = [read EXCEPT ![p] = Empty]

Read(p) ==
    /\ pc[p] = "reading"
    /\ ~Predates(file[args[p].subject], args[p])
    /\ read' = [read EXCEPT ![p] = file]
    /\ pc' = [pc EXCEPT ![p] = "writing"]
    /\ UNCHANGED <<file, args>>

\* exitUsage: "new observation predates the stored observation".  A single
\* field that predates rejects the whole command.
Reject(p) ==
    /\ pc[p] = "reading"
    /\ Predates(file[args[p].subject], args[p])
    /\ End(p)
    /\ UNCHANGED file

\* The rename: the file becomes what was read, with the record merged.
Write(p) ==
    /\ pc[p] = "writing"
    /\ file' = [read[p] EXCEPT ![args[p].subject] = Merge(@, args[p])]
    /\ End(p)

\* The temporary file cannot be written or renamed, or the command is killed:
\* the file stays as it is.
Abandon(p) ==
    /\ pc[p] \in {"reading", "writing"}
    /\ End(p)
    /\ UNCHANGED file

Next ==
    \E p \in Process :
        Begin(p) \/ Read(p) \/ Reject(p) \/ Write(p) \/ Abandon(p)

Spec == Init /\ [][Next]_vars

-----------------------------------------------------------------------------
(* Properties *)

\* docs/cli-contract.md: "Older observations cannot overwrite newer local
\* evidence."
OlderNeverOverwritesNewer ==
    [][\A s \in Subject, f \in Field :
          file'[s][f].made # Never => ~Earlier(file'[s][f].made, file[s][f].made)]_vars

\* The command that writes in this step, over a file it has not read.
WritesUnread(p) == pc[p] = "writing" /\ pc'[p] = "idle" /\ read[p] # file

\* Up to the fraction of a second that the file does not keep, the only way
\* to lose newer evidence is a command that writes over a file it has not
\* read: as long as the file a command replaces is the one it read, no
\* stored observation of any subject becomes older or unknown.
RegressesOnlyOverUnreadFile ==
    [][\/ \A s \in Subject, f \in Field :
             ~Earlier(file'[s][f].stored, file[s][f].stored)
       \/ \E p \in Process : WritesUnread(p)]_vars

\* A command that changes the file changes nothing but the fields it was
\* given, of the subject it was given; again unless it replaces a file it has
\* not read.
TouchesOnlyItsFields ==
    [][file' # file =>
         \E p \in Process :
            \/ WritesUnread(p)
            \/ /\ pc[p] = "writing" /\ pc'[p] = "idle"
               /\ \A s \in Subject, f \in Field :
                     file'[s][f] # file[s][f] =>
                        s = args[p].subject /\ f \in args[p].fields]_vars
=============================================================================
