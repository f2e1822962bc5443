---------------------------- MODULE MCDualWrite ----------------------------
(* DualWrite for TLC: the settings of the migration plan, in any order. *)
EXTENDS DualWrite, TLC

CONSTANTS
    boss,       \* the configured administrator of the new settings
    own,        \* a password that is not the configured one
    p1, p2      \* coroutines: one on accounts, one on sessions

Setting(storage, read, dual, boot) ==
    [storage |-> storage, read |-> read, dual |-> dual, boot |-> boot]

\* Redis only; dual write; reads switched; PostgreSQL as primary.
MCConfigs ==
    {Setting("redis", "redis", FALSE, {Legacy}),
     Setting("redis", "redis", TRUE, {boss}),
     Setting("redis", "postgres", TRUE, {boss}),
     Setting("postgres", "postgres", TRUE, {boss})}

MCDualOnly == {Setting("redis", "postgres", TRUE, {boss})}

MCUpdates == {[pw |-> own, active |-> FALSE]}

MCOps == p1 :> {"update", "bump", "delete"} @@
         p2 :> {"issue", "revoke", "revokeAll"}

MCOneClient == p1 :> {"delete", "issue"}
=============================================================================
