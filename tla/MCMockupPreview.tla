-------------------------- MODULE MCMockupPreview --------------------------
(* One mockup named by its own export, one with a helper only, and files   *)
(* the list must leave out.                                                *)
EXTENDS MockupPreview

MCFiles == {"Card", "_draft"}

MCTsx == MCFiles

MCHidden == {"_draft"}

MCExports == [f \in MCFiles |->
    <<[name |-> "sizes", fn |-> FALSE], [name |-> f, fn |-> TRUE], [name |-> "helper", fn |-> TRUE]>>]

=============================================================================
