-------------------------- MODULE MCProtocolUpdate --------------------------
(***************************************************************************)
(* Small instances of ProtocolUpdate.                                      *)
(***************************************************************************)
EXTENDS ProtocolUpdate

\* CuttlefishPart1, CuttlefishPart2 and Dugong: one group "principal" of one batch, with
\* two transactions for the several of the first and the last
ShippedUpdates == <<<<<<2>>>>, <<<<1>>>>, <<<<2>>>>>>

\* An update with two groups, as ProtocolUpdateGenerator allows; not in a run, since
\* ResumesAfterRecorded fails on it after one restart (README, section 6).
TwoGroups == <<<<<<1>>, <<1, 1>>>>>>
=============================================================================
