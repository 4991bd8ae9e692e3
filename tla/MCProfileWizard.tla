-------------------------- MODULE MCProfileWizard --------------------------
(* ProfileWizard with small integers for the texts: 0 is the empty form.     *)
EXTENDS ProfileWizard

MCTexts == 0..2
MCComplete == {1, 2}
=============================================================================
