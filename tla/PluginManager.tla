---------------------------- MODULE PluginManager ----------------------------
(***************************************************************************)
(* The plugin manager (agent-plugins/manager/src/manager.rs, with the      *)
(* install and update commands of registry.rs): the bundles on disk, one   *)
(* directory for each version of a plugin, and the lock file that says     *)
(* which version of a plugin is installed, which plugins are enabled and   *)
(* what they were authorised to do, which one owns a contested capability  *)
(* and which versions may be returned to.                                  *)
(*                                                                         *)
(* Several processes (terminals and command lines) change it, one at a     *)
(* time under the lock of the transaction.  The user decides on what was   *)
(* shown some time ago.  A process may stop between the move of a bundle   *)
(* and the write of the lock file; that write and a download may fail; a   *)
(* bundle may be damaged from outside.                                     *)
(*                                                                         *)
(* A profile stands for what a manifest asks the user to authorise, the    *)
(* identity of the plugin and its source; hashes, archives, versions of    *)
(* dependencies and their order are left out.                              *)
(***************************************************************************)
EXTENDS Naturals, Sequences

CONSTANTS
    User,               \* the terminals
    Plugin, Version,
    Profile,            \* Profile[<<p, v>>]: what the bundle asks for
    Needs,              \* Needs[<<p, v>>]: the plugins it depends on
    NoPlugin, NoProfile, Nothing,
    MaxManagerFaults    \* bound of the model: failed writes, downloads and damages

VARIABLES
    lockFile,
    dirs,               \* the bundles in plugins/
    damaged,            \* those that do not match their hash any more
    transaction,        \* the installation or update under way, which holds the lock
    shown,              \* the bundle each user was shown for a decision
    reviewed,           \* every plugin and profile a user has agreed to
    managerFaults

managerVars == <<lockFile, dirs, damaged, transaction, shown, reviewed, managerFaults>>

Bundle == Plugin \X Version

Init ==
    /\ lockFile = [version |-> [p \in Plugin |-> 0], enabled |-> {},
                   grants |-> [p \in Plugin |-> NoProfile], owner |-> NoPlugin, history |-> {}]
    /\ dirs = {} /\ damaged = {} /\ transaction = Nothing /\ managerFaults = 0
    /\ shown = [u \in User |-> Nothing] /\ reviewed = {}

-----------------------------------------------------------------------------
(* The lock file.                                                          *)

Current(lock, p) == <<p, lock.version[p]>>
Installed(lock) == {p \in Plugin : lock.version[p] # 0}
Intact(b) == b \in dirs \ damaged

\* Keep only these plugins enabled, authorised and chosen.
Restricted(lock, ids) ==
    [lock EXCEPT !.enabled = @ \cap ids,
                 !.grants = [p \in Plugin |-> IF p \in ids THEN lock.grants[p] ELSE NoProfile],
                 !.owner = IF @ \in ids THEN @ ELSE NoPlugin]

\* load_lock, normalize_authorization_state: a plugin without a matching grant is disabled
Loaded == Restricted(lockFile, {p \in lockFile.enabled :
              Intact(Current(lockFile, p)) /\ lockFile.grants[p] = Profile[Current(lockFile, p)]})

\* validate_enabled_plugins and save_lock, which refuse a lock file that is not in order
Valid(lock) ==
    /\ \A p \in Plugin : p \in lock.enabled <=> lock.grants[p] # NoProfile
    /\ \A p \in lock.enabled : /\ Intact(Current(lock, p))
                               /\ lock.grants[p] = Profile[Current(lock, p)]
                               /\ Needs[Current(lock, p)] \subseteq lock.enabled
    /\ lock.owner \in lock.enabled \cup {NoPlugin}
    /\ \A b \in lock.history : Intact(b) /\ b # Current(lock, b[1])

Archived(lock, p) == IF lock.version[p] = 0 THEN lock.history
                     ELSE lock.history \cup {Current(lock, p)}

\* A command that only changes the lock file: it waits for the transaction.
Change(lock) ==
    /\ transaction = Nothing /\ Valid(lock) /\ lockFile' = lock
    /\ UNCHANGED <<dirs, damaged, transaction, shown, managerFaults>>

-----------------------------------------------------------------------------
(* The user's decisions.                                                   *)

\* inspect, list: without effect on the manager
Show(u, p) ==
    /\ transaction = Nothing /\ p \in Installed(lockFile)
    /\ Intact(Current(lockFile, p))
    /\ shown' = [shown EXCEPT ![u] = Current(lockFile, p)]
    /\ UNCHANGED <<lockFile, dirs, damaged, transaction, reviewed, managerFaults>>

Confirms_ById(b) == b[1] \in Installed(lockFile)  \* mutant
\* ensure_expected_bundle_identity
Confirms(b) == b[1] \in Installed(lockFile) /\ b = Current(lockFile, b[1])

Enabled(lock, p) == [lock EXCEPT !.enabled = @ \cup {p},
                                 !.grants[p] = Profile[Current(lock, p)]]
Agree(b) == reviewed' = reviewed \cup {<<b[1], Profile[b]>>}

\* enable_if_matches
Enable(u) ==
    /\ shown[u] # Nothing /\ Confirms(shown[u])
    /\ Change(Enabled(Loaded, shown[u][1])) /\ Agree(shown[u])

\* enable_and_select
EnableAndSelect(u) ==
    /\ shown[u] # Nothing /\ Confirms(shown[u])
    /\ Change([Enabled(Loaded, shown[u][1]) EXCEPT !.owner = shown[u][1]]) /\ Agree(shown[u])

Disable(p) ==
    /\ p \in Installed(lockFile)
    /\ Change(Restricted(Loaded, Plugin \ {p})) /\ UNCHANGED reviewed

\* select, clear_selection
Select(p) ==
    /\ p \in Loaded.enabled \cup {NoPlugin}
    /\ Change([Loaded EXCEPT !.owner = p]) /\ UNCHANGED reviewed

\* The bundle stays on disk and may be returned to.
RemovePlugin(p) ==
    /\ p \in Installed(lockFile)
    /\ Change([Restricted(Loaded, Plugin \ {p}) EXCEPT !.version[p] = 0,
                                                       !.history = Archived(lockFile, p)])
    /\ UNCHANGED reviewed

Rollback(b) ==
    /\ b \in lockFile.history /\ Intact(b)
    /\ Change([Restricted(Loaded, Plugin \ {b[1]}) EXCEPT
                   !.version[b[1]] = b[2], !.history = Archived(lockFile, b[1]) \ {b}])
    /\ UNCHANGED reviewed

-----------------------------------------------------------------------------
(* Installations and updates.  A command of the registry installs a plugin *)
(* after those it depends on, holding the lock of the transaction all the  *)
(* time, and takes everything back when one of them fails.                 *)

\* install_registry, install; update_registry and replace do one plugin at a time
Begin(plan, policy) ==
    /\ transaction = Nothing
    /\ transaction' = [plan |-> plan, policy |-> policy, moved |-> FALSE, done |-> <<>>,
                       original |-> Loaded]
    /\ UNCHANGED <<lockFile, dirs, damaged, shown, reviewed, managerFaults>>

\* A bundle whose dependencies are installed, alone or behind the one that is not.
Ready(lock) == {b \in Bundle : Needs[b] \subseteq Installed(lock)}
Pairs(lock) == {ab \in Bundle \X Bundle : /\ {ab[1][1], ab[2][1]} \cap Installed(lock) = {}
                                          /\ ab[1][1] # ab[2][1]
                                          /\ Needs[ab[2]] \ Installed(lock) = {ab[1][1]}}
Plans(lock) == {<<b>> : b \in Ready(lock)} \cup Pairs(lock)

NextBundle == transaction.plan[1]
Fits(lock, b, policy) == /\ (b[1] \in Installed(lock)) = (policy # "install")
                         /\ policy = "official" => Intact(Current(lock, b[1]))
                         /\ b \notin dirs

SameRights_Always(lock, b) == TRUE  \* mutant
\* A plugin stays enabled only when an official update asks for what is authorised.
SameRights(lock, b) == lock.grants[b[1]] = Profile[b] /\ Profile[Current(lock, b[1])] = Profile[b]
StaysEnabled(lock, b, policy) ==
    policy = "official" /\ b[1] \in lock.enabled /\ SameRights(lock, b)

Replaced(lock, b, policy) ==
    LET p == b[1]
        kept == IF StaysEnabled(lock, b, policy) THEN Plugin ELSE Plugin \ {p}
    IN [Restricted(lock, kept) EXCEPT
            !.version[p] = b[2], !.history = Archived(lock, p),
            !.grants[p] = IF StaysEnabled(lock, b, policy) THEN Profile[b] ELSE NoProfile]

\* install_or_replace_with_source: the checks and the move of the bundle
Move ==
    /\ transaction # Nothing /\ transaction.plan # <<>> /\ ~transaction.moved
    /\ Fits(Loaded, NextBundle, transaction.policy)
    /\ dirs' = dirs \cup {NextBundle}
    /\ transaction' = [transaction EXCEPT !.moved = TRUE]
    /\ UNCHANGED <<lockFile, damaged, shown, reviewed, managerFaults>>

\* ... and then the write of the lock file
Commit ==
    /\ transaction # Nothing /\ transaction.moved
    /\ LET lock == Replaced(Loaded, NextBundle, transaction.policy)
       IN Valid(lock) /\ lockFile' = lock
    /\ transaction' = [transaction EXCEPT !.plan = Tail(@), !.moved = FALSE,
                                          !.done = Append(@, NextBundle)]
    /\ UNCHANGED <<dirs, damaged, shown, reviewed, managerFaults>>

Done ==
    /\ transaction # Nothing /\ transaction.plan = <<>> /\ transaction' = Nothing
    /\ UNCHANGED <<lockFile, dirs, damaged, shown, reviewed, managerFaults>>

Undo_DirsOnly == UNCHANGED lockFile  \* mutant
\* rollback_new_installations_in_transaction: the lock file first, then the directories
Undo == Valid(transaction.original) /\ lockFile' = transaction.original

\* A download, a check or the write of the lock file fails: the bundle that was moved is
\* removed, and the bundles installed before it are taken back; either may fail in turn.
Fail(fault) ==
    /\ transaction # Nothing /\ transaction.plan # <<>>
    /\ IF fault THEN managerFaults < MaxManagerFaults /\ managerFaults' = managerFaults + 1
       ELSE /\ IF transaction.moved
               THEN ~Valid(Replaced(Loaded, NextBundle, transaction.policy))
               ELSE ~Fits(Loaded, NextBundle, transaction.policy)
            /\ UNCHANGED managerFaults
    /\ LET moved == IF transaction.moved THEN {NextBundle} ELSE {}
           done == {transaction.done[i] : i \in DOMAIN transaction.done}
       IN \/ done # {} /\ Undo /\ dirs' = dirs \ (moved \cup done)
          \/ /\ done = {} \/ fault \/ ~Valid(transaction.original)
             /\ UNCHANGED lockFile
             /\ dirs' \in {dirs \ moved} \cup (IF fault THEN {dirs} ELSE {})
    /\ transaction' = Nothing
    /\ UNCHANGED <<damaged, shown, reviewed>>

\* The process that holds the lock ends.
Crash ==
    /\ transaction # Nothing /\ transaction' = Nothing
    /\ UNCHANGED <<lockFile, dirs, damaged, shown, reviewed, managerFaults>>

Damage(b) ==
    /\ b \in dirs \ damaged /\ transaction = Nothing
    /\ managerFaults < MaxManagerFaults /\ managerFaults' = managerFaults + 1
    /\ damaged' = damaged \cup {b}
    /\ UNCHANGED <<lockFile, dirs, transaction, shown, reviewed>>

-----------------------------------------------------------------------------
Next ==
    \/ \E u \in User : (\E p \in Plugin : Show(u, p)) \/ Enable(u) \/ EnableAndSelect(u)
    \/ \E p \in Plugin : Disable(p) \/ Select(p) \/ RemovePlugin(p)
    \/ Select(NoPlugin)
    \/ \E b \in Bundle : Rollback(b) \/ Damage(b)
    \/ \E plan \in Plans(lockFile) : Begin(plan, "install")
    \/ \E b \in Bundle, policy \in {"review", "official"} : Begin(<<b>>, policy)
    \/ Move \/ Commit \/ Done \/ Crash \/ \E fault \in BOOLEAN : Fail(fault)

Spec == Init /\ [][Next]_managerVars

-----------------------------------------------------------------------------
\* Whatever a plugin that is enabled asks for, a user has seen and agreed to: across
\* updates, returns to an older version, stale screens and installations taken back.
EnabledReviewed == \A p \in Loaded.enabled : <<p, Profile[Current(lockFile, p)]>> \in reviewed

\* The bundles the lock file names are on disk, wherever a process stopped and whichever
\* write failed: of the installed versions and of those that may be returned to.
LockedBundlesExist == /\ \A p \in Installed(lockFile) : Current(lockFile, p) \in dirs
                      /\ lockFile.history \subseteq dirs

\* What the manager promises the next start: it loads nothing that nobody agreed to, and
\* finds what it is told to load.
ManagerSound == EnabledReviewed /\ LockedBundlesExist
=============================================================================
