------------------------------ MODULE Sandbox ------------------------------
(***************************************************************************)
(* Privilege handling of src/src/system_unix.cpp: set_real_user (with      *)
(* get_passwd_entry), which the manager runs on itself after the modules   *)
(* are started, and set_caps, which turns capability names into values and *)
(* makes them inheritable and ambient (SubProcess::create has the call     *)
(* commented out, so no path under src/ reaches it).                       *)
(*                                                                         *)
(* Every system call may fail; the functions return at the first failure.  *)
(* Credentials are "root" (the manager as started) or "target" (the        *)
(* configured run_as_user).  The two functions run in different processes *)
(* and are independent here.                                               *)
(***************************************************************************)
EXTENDS Naturals, Sequences

CONSTANTS
    CapName,      \* capability names a module's config can list
    CapOf,        \* cap_from_name: the value of each name that exists
    MaxCapList,   \* length bound of a module's capabilities list
    GroupCounts,  \* numbers of supplementary groups the target user can have
    MaxGroups     \* max_supplementary_groups

\* CAP_CHOWN: the value a default-constructed cap_value_t holds.
CapChown == 0

ASSUME CapAssumption ==
    /\ DOMAIN CapOf \subseteq CapName
    /\ \A n \in DOMAIN CapOf : CapOf[n] \in Nat
    /\ MaxCapList \in Nat

ASSUME GroupAssumption == GroupCounts \subseteq Nat /\ MaxGroups \in Nat

\* A module's capabilities list.
CapList == UNION {[1..n -> CapName] : n \in 0..MaxCapList}

Cred == {"root", "target"}

VARIABLES
    upc,        \* set_real_user has returned
    uerr,       \* it returned an error string
    cpc,        \* set_caps has returned
    cerr,       \* it returned an error string
    uid, gid, groups,  \* the process credentials
    ngroups,    \* supplementary groups of the target user
    exists,     \* getpwnam finds the user
    req,        \* the capabilities list passed to set_caps
    inheritable,\* the capabilities set in the inheritable set
    ambient     \* the capabilities raised in the ambient set

vars == <<upc, uerr, cpc, cerr, uid, gid, groups, ngroups, exists, req, inheritable, ambient>>

Init ==
    /\ upc = FALSE /\ uerr = FALSE
    /\ cpc = FALSE /\ cerr = FALSE
    /\ uid = "root" /\ gid = "root" /\ groups = "root"
    /\ ngroups \in GroupCounts
    /\ exists \in BOOLEAN
    /\ req \in CapList
    /\ inheritable = {} /\ ambient = {}

-----------------------------------------------------------------------------
(* set_real_user.                                                          *)

\* getpwnam finds the user and getgrouplist fits the groups into the array of MaxGroups.
PasswdEntryFound == exists /\ ngroups <= MaxGroups

(* A variant that drops the user id before the group ids, after which the  *)
(* process may no longer change them.                                      *)
SetRealUserUidFirst ==
    /\ ~upc
    /\ \/ /\ ~PasswdEntryFound
          /\ uerr' = TRUE
          /\ UNCHANGED <<uid, gid, groups>>
       \/ /\ PasswdEntryFound
          /\ \E fail \in 0..3 :
                /\ uid' = IF fail = 1 THEN uid ELSE "target"
                /\ groups' = IF fail \in {1, 2} THEN groups ELSE "target"
                /\ gid' = IF fail \in 1..3 THEN gid ELSE "target"
                /\ uerr' = (fail # 0)
    /\ upc' = TRUE
    /\ UNCHANGED <<cpc, cerr, ngroups, exists, req, inheritable, ambient>>

(* get_passwd_entry, then setgroups, setgid and setuid in that order: the  *)
(* first failure (fail = 1, 2, 3) returns its error and leaves the later   *)
(* credentials as they are.                                                *)
SetRealUser ==
    /\ ~upc
    /\ \/ /\ ~PasswdEntryFound
          /\ uerr' = TRUE
          /\ UNCHANGED <<uid, gid, groups>>
       \/ /\ PasswdEntryFound
          /\ \E fail \in 0..3 :
                /\ groups' = IF fail = 1 THEN groups ELSE "target"
                /\ gid' = IF fail \in {1, 2} THEN gid ELSE "target"
                /\ uid' = IF fail \in 1..3 THEN uid ELSE "target"
                /\ uerr' = (fail # 0)
    /\ upc' = TRUE
    /\ UNCHANGED <<cpc, cerr, ngroups, exists, req, inheritable, ambient>>

-----------------------------------------------------------------------------
(* set_caps.                                                               *)

\* The values of the names, in order: what the loop of emplace_back appends.
CapValues(names) == [j \in 1..Len(names) |-> CapOf[names[j]]]

\* capability_values after resize(n) and the loop: n default values, then the n appended ones.
CapVector(names) == [j \in 1..Len(names) |-> CapChown] \o CapValues(names)

\* The set of values of a vector.
Values(v) == {v[j] : j \in DOMAIN v}

(* A name cap_from_name does not know returns an error before anything is *)
(* set; otherwise the whole vector is made inheritable and each of its     *)
(* values is raised in the ambient set.                                    *)
SetCaps ==
    /\ ~cpc
    /\ \/ /\ \E j \in 1..Len(req) : req[j] \notin DOMAIN CapOf
          /\ cerr' = TRUE
          /\ UNCHANGED <<inheritable, ambient>>
       \/ /\ \A j \in 1..Len(req) : req[j] \in DOMAIN CapOf
          /\ inheritable' = Values(CapVector(req))
          /\ ambient' = Values(CapVector(req))
          /\ UNCHANGED cerr
    /\ cpc' = TRUE
    /\ UNCHANGED <<upc, uerr, uid, gid, groups, ngroups, exists, req>>

Next == SetRealUser \/ SetCaps

Spec == Init /\ [][Next]_vars

-----------------------------------------------------------------------------
(* Properties.                                                             *)

TypeOK ==
    /\ {upc, uerr, cpc, cerr} \subseteq BOOLEAN
    /\ uid \in Cred /\ gid \in Cred /\ groups \in Cred
    /\ ngroups \in GroupCounts
    /\ exists \in BOOLEAN
    /\ req \in CapList
    /\ inheritable \subseteq Nat /\ ambient \subseteq Nat

(* The manager gives up root only together with root's groups: whichever  *)
(* of setgroups, setgid and setuid fails, a process running as the target *)
(* user has the target user's group id and supplementary groups.          *)
PrivilegesDroppedTogether ==
    uid = "target" => gid = "target" /\ groups = "target"

(* Spec 4.6 step 3: a module receives exactly the capabilities its       *)
(* config lists: the inheritable and ambient sets set_caps produces are    *)
(* the values of the requested names.                                      *)
SetCapsGrantsRequested ==
    cpc /\ ~cerr =>
        /\ inheritable = Values(CapValues(req))
        /\ ambient = Values(CapValues(req))

=============================================================================
