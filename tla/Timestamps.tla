----------------------------- MODULE Timestamps -----------------------------
(***************************************************************************)
(* The per-key logical clock that both protocols keep in cache_meta        *)
(* (include/optik/optik_mod.h): a version, even while the item is          *)
(* unlocked, and cid, the machine that breaks ties.  optik_lock adds one   *)
(* to the version, so every comparison made inside a critical section sees *)
(* an odd current version; the operators below are called the same way.    *)
(***************************************************************************)
EXTENDS Naturals

\* Versions of an unlocked item.
Even == {n \in Nat : n % 2 = 0}

\* What optik_lock makes of an unlocked version.
Locked(version) == version + 1

\* Variant: a write unlocks as a read does, and takes no new version.
UnlockWriteDecrements(locked) == locked - 1

\* The version optik_unlock_write leaves, and hands back to the caller.
optik_unlock_write(locked) == locked + 1

\* Variant: the tie between equal versions goes to the received clock.
GreaterVersionTakesTies(currVersion, currCid, version, cid) ==
    currVersion - 1 <= version

\* Variant: equal versions are not told apart by cid.
GreaterVersionDropsTies(currVersion, currCid, version, cid) ==
    currVersion < version

\* The received clock is newer than the clock of the locked item.
optik_is_greater_version(currVersion, currCid, version, cid) ==
    \/ currVersion < version
    \/ currVersion - 1 = version /\ currCid < cid

\* The received clock is the one the locked item already has.
optik_is_same_version_plus_one(currVersion, currCid, version, cid) ==
    currVersion = version + 1 /\ currCid = cid

-----------------------------------------------------------------------------
(***************************************************************************)
(* The order the protocols rely on: a timestamp is a pair of a version and *)
(* a machine, ordered lexicographically.                                   *)
(***************************************************************************)
Less(a, b) == a[1] < b[1] \/ (a[1] = b[1] /\ a[2] < b[2])

LessEq(a, b) == a = b \/ Less(a, b)
=============================================================================
