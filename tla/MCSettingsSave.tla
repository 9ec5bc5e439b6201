--------------------------- MODULE MCSettingsSave ---------------------------
(* SettingsSave with a first set-up, a new pair, and a save that leaves    *)
(* the secrets alone and clears the ids.                                   *)
EXTENDS SettingsSave, TLC

MCForms == {[key |-> 1, token |-> 1, ids |-> 1],
            [key |-> 2, token |-> 2, ids |-> 2],
            [key |-> 0, token |-> 0, ids |-> 0]}
=============================================================================
