---------------------------- MODULE MCUserRights ----------------------------
(* One user, userman.login above one other permission, and two groups: at    *)
(* the start only one is registered, or the second is below it, or both      *)
(* stand alone.                                                              *)
EXTENDS UserRights

CONSTANTS login, chat, user, staff, guests

permissionParent == [p \in {login, chat} |-> IF p = chat THEN login ELSE None]

Says(p, state) == [Nothing EXCEPT ![p] = state]

tablesAtStart ==
    {[userpermission |-> [u \in {user} |-> Nothing],
      usergroup |-> [u \in {user} |-> IF guestsIs = Absent THEN {} ELSE {guests}],
      groups |-> [g \in {staff, guests} |-> IF g = guests THEN guestsIs ELSE None],
      grouppermission |-> [g \in {staff, guests} |->
                              IF guestsIs = Absent THEN Nothing
                              ELSE IF g = staff THEN Says(login, 1) ELSE Says(chat, -1)]] :
        guestsIs \in {Absent, staff, None}}
=============================================================================
