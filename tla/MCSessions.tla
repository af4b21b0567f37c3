----------------------------- MODULE MCSessions -----------------------------
(* Small instances of Clients and Sessions: each budget is one story, the   *)
(* accounts that are opened, the tokens that rotate, or the roles.          *)
EXTENDS Clients

CONSTANTS u1, u2, t1, t2, k1, k2, k3, k4

Nothing == [op \in Ops |-> 0]

Opening  == [Nothing EXCEPT !["register"] = 2, !["invite"] = 1,
                            !["newTenant"] = 1]
Rotation == [Nothing EXCEPT !["register"] = 1, !["login"] = 1,
                            !["refresh"] = 3, !["logout"] = 1, !["expire"] = 1]
Moving   == [Nothing EXCEPT !["register"] = 2, !["invite"] = 1,
                            !["login"] = 1, !["refresh"] = 1]
Granting == [Nothing EXCEPT !["newTenant"] = 2, !["invite"] = 1,
                            !["setRoles"] = 1, !["login"] = 1, !["call"] = 1]
Device   == [Nothing EXCEPT !["register"] = 1, !["login"] = 2]

WithDevice == {Device}

Stories == {Opening, Rotation, Moving, Granting, Device}

OneRegistered == {[Nothing EXCEPT !["register"] = 1, !["login"] = 1,
                              !["call"] = 1]}

TwoRoles == <<"Admin", "Cashier">>

Assigned == {{}, {<<t1, "Cashier">>}, {<<t2, "Cashier">>, <<t1, "Admin">>}}

SomeRoutes == {SignedIn, Guarded([module |-> "pos", model |-> "PosOrder",
                                  verb |-> "create"])}

=============================================================================
