----------------------------- MODULE MCEditForm -----------------------------
(* Two records and the forms of the interface.                             *)
EXTENDS UIForms

\* The theorems of EditForm_proofs hold for these forms.
ASSUME FormsReset == \A f \in AllForms : Resets(f) /\ ReloadsOwn(f)
=============================================================================
