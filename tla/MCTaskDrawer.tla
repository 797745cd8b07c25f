---------------------------- MODULE MCTaskDrawer ----------------------------
(* Instances of TaskDrawer for TLC.                                        *)
EXTENDS TaskDrawer, TLC

TwoRevised == <<"status", "content">>
NoExtension == << >>
OneRevised == <<"content">>
OneExtension == <<"extension">>
SlotSymmetry == Permutations(Slot)
=============================================================================
