-------------------------- MODULE MCPortalCommands --------------------------
(* PortalCommands with three rows in pages of one, and with Registries of    *)
(* three datasets and of one.                                                *)
EXTENDS PortalCommands

LOCAL INSTANCE SequencesExt

\* Ranks computes what the library does.
ASSUME
    /\ \A P \in SUBSET Row : Ascending(P) = SetToSortSeq(P, <)
    /\ \A seq \in BoundedSeq({1, 2}, 3) :
          Subsequence(seq, {i \in DOMAIN seq : seq[i] = 1}) = SelectSeq(seq, LAMBDA x : x = 1)

FirstAndLast == {1, 3}
OnlyLast == {3}
TwoListings == {<<"d1", "d2", "d3">>, <<"d2">>}
OneForbidden == <<"d1">>
FirstAndSecond == {"d1", "d2"}
OnlyThird == {"d3"}
OnePage ==
    {[gate |-> FALSE, login |-> FALSE, duplicate |-> TRUE, requested |-> FALSE,
      control |-> "none", markup |-> TRUE]}
=============================================================================
