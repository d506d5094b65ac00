---------------------------- MODULE MCConcatenator ----------------------------
(***************************************************************************)
(* The signing pipeline on a few GoPs, with channels that fill up.         *)
(***************************************************************************)
EXTENDS Concatenator, TLC

\* 1, 16 and 16 in the code.
McCap == [init |-> 1, seg |-> 1, event |-> 2]
McAll == Chan
\* A manifest that fits, one for which the buffer grows, one that is too long,
\* also after that, and one that is shorter again.
McLen == 0 :> 1 @@ 1 :> 2 @@ 2 :> 4 @@ 3 :> 1
McShort == 0 :> 1
\* The example of Concatenator: it reads InitCh and SegCh only.
McExample == {"init", "seg"}
=============================================================================
