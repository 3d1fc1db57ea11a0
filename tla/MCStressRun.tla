----------------------------- MODULE MCStressRun -----------------------------
(***************************************************************************)
(* Command lines: the memory fault's, "--vm 1"; the cpu fault's on a host  *)
(* of two processors, "--cpu 2", one entry of two instances; and "--cpu 1  *)
(* --vm 1", two entries of one.                                            *)
(***************************************************************************)
EXTENDS StressRun

OneVm    == {[kind |-> <<"vm">>, entry |-> <<1>>]}
Mixed    == {[kind |-> <<"cpu", "vm">>, entry |-> <<1, 2>>],
             [kind |-> <<"cpu", "cpu">>, entry |-> <<1, 1>>]}
=============================================================================
