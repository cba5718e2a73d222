----------------------------- MODULE PluginProofs ----------------------------
(***************************************************************************)
(* Proofs about plugins: what is installed and enabled (PluginManager),    *)
(* the calls between those that are loaded (ServiceCalls), and the plugin  *)
(* that keeps a team (Teammates, as a part of Parts).                      *)
(***************************************************************************)
EXTENDS PluginManager, ServiceCalls, Parts, Filters, SequenceTheorems,
        FiniteSetTheorems, FunctionTheorems, WellFoundedInduction, TLAPS

(* PluginManager.                                                         *)
(* What a plugin that is enabled asks for was agreed to, for every set of  *)
(* users, plugins and versions and for any number of faults.  The reason   *)
(* is in the lock file: it never names a plugin as enabled with a grant    *)
(* that is not in `reviewed`, and neither does the copy that a transaction *)
(* keeps for its way back.  Loaded then drops the plugins whose bundle     *)
(* does not ask for exactly that grant.  That what the lock file names is  *)
(* on disk is proved after that: a bundle is in place before the file      *)
(* names it and is moved away only when the file has forgotten it.         *)

\* A lock file, as far as the proof needs it: its fields, and whom they are about.
LockShape(l) ==
    /\ DOMAIN l = {"version", "enabled", "grants", "owner", "history"}
    /\ l.enabled \subseteq Plugin
    /\ DOMAIN l.grants = Plugin

GrantsIn(l, r) == \A p \in l.enabled : <<p, l.grants[p]>> \in r

Sound(l, r) == LockShape(l) /\ GrantsIn(l, r)

TransactionShape(t) ==
    t = [plan |-> t.plan, policy |-> t.policy, moved |-> t.moved, done |-> t.done,
         original |-> t.original]

MInv ==
    /\ Sound(lockFile, reviewed)
    /\ transaction # Nothing =>
           TransactionShape(transaction) /\ Sound(transaction.original, reviewed)

-----------------------------------------------------------------------------
(* Restricting a lock file, changing its other fields or agreeing to more  *)
(* keeps it sound.                                                         *)
LEMMA RestrictedSound ==
    ASSUME NEW l, NEW r, NEW ids, Sound(l, r)
    PROVE  /\ Sound(Restricted(l, ids), r)
           /\ Restricted(l, ids).version = l.version
           /\ Restricted(l, ids).enabled = l.enabled \cap ids
<1> DEFINE m == Restricted(l, ids)
<1>1. /\ DOMAIN m = DOMAIN l /\ m.version = l.version
      /\ m.enabled = l.enabled \cap ids
      /\ m.grants = [p \in Plugin |-> IF p \in ids THEN l.grants[p] ELSE NoProfile]
  BY DEF Sound, LockShape, Restricted
<1> HIDE DEF m
<1>2. LockShape(m)
  BY <1>1 DEF Sound, LockShape
<1>3. GrantsIn(m, r)
  BY <1>1 DEF Sound, LockShape, GrantsIn
<1> QED BY <1>1, <1>2, <1>3 DEF Sound, m

LEMMA OtherFieldsSound ==
    ASSUME NEW l, NEW r, Sound(l, r), NEW o, NEW p, NEW v, NEW h
    PROVE  /\ Sound([l EXCEPT !.owner = o], r)
           /\ Sound([l EXCEPT !.version[p] = v, !.history = h], r)
BY DEF Sound, LockShape, GrantsIn

LEMMA AgreedSound ==
    ASSUME NEW l, NEW r, NEW s, Sound(l, r), r \subseteq s
    PROVE  Sound(l, s)
BY DEF Sound, GrantsIn

LEMMA LoadedSound ==
    ASSUME Sound(lockFile, reviewed)
    PROVE  Sound(Loaded, reviewed) /\ Loaded.version = lockFile.version
BY RestrictedSound DEF Loaded

(* The user agrees to what the bundle asks for, which becomes the grant.   *)
LEMMA EnabledSound ==
    ASSUME NEW l, NEW r, Sound(l, r), NEW p \in Plugin
    PROVE  Sound(Enabled(l, p), r \cup {<<p, Profile[Current(l, p)]>>})
BY DEF Sound, LockShape, GrantsIn, Enabled

(* An update that leaves the plugin enabled leaves its grant as it was.    *)
LEMMA ReplacedSound ==
    ASSUME NEW l, NEW r, Sound(l, r), NEW b, NEW policy
    PROVE  Sound(Replaced(l, b, policy), r)
<1> DEFINE p == b[1]
           stays == StaysEnabled(l, b, policy)
           m == Restricted(l, IF stays THEN Plugin ELSE Plugin \ {p})
           g == IF stays THEN Profile[b] ELSE NoProfile
<1>1. Sound(m, r) /\ m.enabled = l.enabled \cap (IF stays THEN Plugin ELSE Plugin \ {p})
  BY RestrictedSound
<1>2. stays => p \in l.enabled /\ l.grants[p] = g
  BY DEF StaysEnabled, SameRights
<1> DEFINE n == [m EXCEPT !.grants[p] = g]
<1>3. Sound(n, r)
  BY <1>1, <1>2 DEF Sound, LockShape, GrantsIn
<1>4. Replaced(l, b, policy) = [n EXCEPT !.version[p] = b[2], !.history = Archived(l, p)]
  BY <1>1 DEF Replaced, Sound, LockShape
<1> HIDE DEF n
<1>5. Sound([n EXCEPT !.version[p] = b[2], !.history = Archived(l, p)], r)
  BY <1>3 DEF Sound, LockShape, GrantsIn
<1> QED BY <1>4, <1>5

-----------------------------------------------------------------------------
(* The steps.                                                              *)

LEMMA InitMInv == Init => MInv
BY DEF Init, MInv, Sound, LockShape, GrantsIn

(* A command that changes the lock file and leaves the rest alone.         *)
LEMMA ChangeStep ==
    ASSUME MInv, NEW lock, Change(lock), reviewed \subseteq reviewed', Sound(lock, reviewed')
    PROVE  MInv'
BY AgreedSound DEF MInv, Change, TransactionShape, Sound, LockShape, GrantsIn

LEMMA EnableStep ==
    ASSUME MInv, NEW u \in User, Enable(u) \/ EnableAndSelect(u)
    PROVE  MInv'
<1> DEFINE b == shown[u]
           p == b[1]
           lock == Enabled(Loaded, p)
<1>1. p \in Plugin /\ b = Current(lockFile, p) /\ Agree(b)
  BY DEF Enable, EnableAndSelect, Confirms, Installed
<1>2. Sound(Loaded, reviewed) /\ Current(Loaded, p) = b
  BY <1>1, LoadedSound DEF MInv, Current
<1>3. reviewed' = reviewed \cup {<<p, Profile[Current(Loaded, p)]>>}
  BY <1>1, <1>2 DEF Agree
<1>4. Sound(lock, reviewed')
  BY <1>1, <1>2, <1>3, EnabledSound
<1> HIDE DEF lock
<1>5. Sound([lock EXCEPT !.owner = p], reviewed')
  BY <1>4, OtherFieldsSound
<1>6. CASE Enable(u)
  BY <1>3, <1>4, <1>6, ChangeStep DEF Enable, lock
<1>7. CASE EnableAndSelect(u)
  BY <1>3, <1>5, <1>7, ChangeStep DEF EnableAndSelect, lock
<1> QED BY <1>6, <1>7

LEMMA SelectStep ==
    ASSUME MInv, NEW q, Select(q)
    PROVE  MInv'
<1>1. Sound(Loaded, reviewed)
  BY LoadedSound DEF MInv
<1>2. Sound([Loaded EXCEPT !.owner = q], reviewed')
  BY <1>1, OtherFieldsSound DEF Select
<1> QED BY <1>2, ChangeStep DEF Select

LEMMA LockStep ==
    ASSUME MInv, NEW p \in Plugin, Disable(p) \/ RemovePlugin(p)
    PROVE  MInv'
<1> DEFINE m == Restricted(Loaded, Plugin \ {p})
<1>1. Sound(Loaded, reviewed) /\ Sound(m, reviewed)
  BY LoadedSound, RestrictedSound DEF MInv
<1> HIDE DEF m
<1>2. CASE Disable(p)
  BY <1>1, <1>2, ChangeStep DEF Disable, m
<1>3. CASE RemovePlugin(p)
  <2>1. Sound([m EXCEPT !.version[p] = 0, !.history = Archived(lockFile, p)], reviewed')
    BY <1>1, <1>3, OtherFieldsSound DEF RemovePlugin
  <2> QED BY <1>3, <2>1, ChangeStep DEF RemovePlugin, m
<1> QED BY <1>2, <1>3

LEMMA RollbackStep ==
    ASSUME MInv, NEW b, Rollback(b)
    PROVE  MInv'
<1> DEFINE m == Restricted(Loaded, Plugin \ {b[1]})
           h == Archived(lockFile, b[1]) \ {b}
<1>1. Sound(m, reviewed)
  BY LoadedSound, RestrictedSound DEF MInv
<1> HIDE DEF m, h
<1>2. Sound([m EXCEPT !.version[b[1]] = b[2], !.history = h], reviewed')
  BY <1>1, OtherFieldsSound DEF Rollback
<1> QED BY <1>2, ChangeStep DEF Rollback, m, h

(* A transaction: it begins with a sound copy, and every lock file it      *)
(* writes is a replacement in a sound one or that copy.                    *)
LEMMA TransactionStep ==
    ASSUME MInv,
           \/ \E plan, policy : Begin(plan, policy)
           \/ Move \/ Commit \/ Done \/ Crash
           \/ \E fault \in BOOLEAN : Fail(fault)
    PROVE  MInv'
<1>1. Sound(Loaded, reviewed)
  BY LoadedSound DEF MInv
<1>2. CASE \E plan, policy : Begin(plan, policy)
  BY <1>1, <1>2 DEF MInv, Begin, TransactionShape, Sound, LockShape, GrantsIn
<1>3. CASE Move
  BY <1>3 DEF MInv, Move, TransactionShape, Sound, LockShape, GrantsIn
<1>4. CASE Commit
  <2> DEFINE lock == Replaced(Loaded, NextBundle, transaction.policy)
  <2>1. Sound(lock, reviewed)
    BY <1>1, ReplacedSound
  <2>2. lockFile' = lock /\ reviewed' = reviewed
    BY <1>4 DEF Commit
  <2>3. transaction # Nothing /\ TransactionShape(transaction)'
        /\ transaction'.original = transaction.original
    BY <1>4 DEF Commit, MInv, TransactionShape
  <2> HIDE DEF lock
  <2> QED BY <2>1, <2>2, <2>3 DEF MInv, Sound, LockShape, GrantsIn
<1>5. CASE Done \/ Crash
  BY <1>5 DEF MInv, Done, Crash, Sound, LockShape, GrantsIn
<1>6. CASE \E fault \in BOOLEAN : Fail(fault)
  <2>1. /\ transaction # Nothing /\ transaction' = Nothing /\ reviewed' = reviewed
        /\ lockFile' = lockFile \/ lockFile' = transaction.original
    BY <1>6 DEF Fail, Undo
  <2> QED BY <2>1 DEF MInv, Sound, LockShape, GrantsIn
<1> QED BY <1>2, <1>3, <1>4, <1>5, <1>6

LEMMA MInvStep == MInv /\ [Next]_managerVars => MInv'
<1> SUFFICES ASSUME MInv, [Next]_managerVars PROVE MInv'
  OBVIOUS
<1>1. ASSUME NEW u \in User, NEW p \in Plugin, Show(u, p) PROVE MInv'
  BY <1>1 DEF Show, MInv, TransactionShape, Sound, LockShape, GrantsIn
<1>2. ASSUME NEW b \in Bundle, Damage(b) PROVE MInv'
  BY <1>2 DEF Damage, MInv, TransactionShape, Sound, LockShape, GrantsIn
<1>3. CASE UNCHANGED managerVars
  BY <1>3 DEF managerVars, MInv, TransactionShape, Sound, LockShape, GrantsIn
<1>4. ASSUME NEW u \in User, Enable(u) \/ EnableAndSelect(u) PROVE MInv'
  BY <1>4, EnableStep
<1>5. ASSUME NEW p \in Plugin, Disable(p) \/ RemovePlugin(p) PROVE MInv'
  BY <1>5, LockStep
<1>6. ASSUME NEW q, Select(q) PROVE MInv'
  BY <1>6, SelectStep
<1>7. ASSUME NEW b \in Bundle, Rollback(b) PROVE MInv'
  BY <1>7, RollbackStep
<1>8. ASSUME NEW plan, NEW policy, Begin(plan, policy) PROVE MInv'
  BY <1>8, TransactionStep
<1>9. CASE Move \/ Commit \/ Done \/ Crash
  BY <1>9, TransactionStep
<1>10. ASSUME NEW fault \in BOOLEAN, Fail(fault) PROVE MInv'
  BY <1>10, TransactionStep
<1> QED BY <1>1, <1>2, <1>3, <1>4, <1>5, <1>6, <1>7, <1>8, <1>9, <1>10 DEF Next

THEOREM ManagerInductive == Spec => []MInv
BY InitMInv, MInvStep, PTL DEF Spec

(* A plugin that is enabled, when its bundle is what it was authorised as, *)
(* asks for nothing but what a user has agreed to.                         *)
THEOREM EnabledCorrect == Spec => []EnabledReviewed
<1>1. MInv => EnabledReviewed
  <2> SUFFICES ASSUME MInv, NEW p \in Loaded.enabled
               PROVE  <<p, Profile[Current(lockFile, p)]>> \in reviewed
    BY DEF EnabledReviewed
  <2> DEFINE ids == {q \in lockFile.enabled : /\ Intact(Current(lockFile, q))
                                              /\ lockFile.grants[q] = Profile[Current(lockFile, q)]}
  <2>1. Loaded.enabled = lockFile.enabled \cap ids
    BY RestrictedSound DEF MInv, Loaded
  <2> QED BY <2>1 DEF MInv, Sound, GrantsIn
<1> QED BY <1>1, ManagerInductive, PTL

-----------------------------------------------------------------------------
(* The bundles a lock file names are on disk.  A transaction moves only    *)
(* bundles that were not there, so what it takes back is named neither by  *)
(* the lock file it found nor, until the write, by the present one.        *)
Named(l) == {Current(l, p) : p \in Installed(l)} \cup l.history

OnDisk(l) == DOMAIN l.version = Plugin /\ Named(l) \subseteq dirs

BInv ==
    /\ OnDisk(lockFile)
    /\ transaction # Nothing =>
           /\ transaction.plan \in Seq(Bundle) /\ transaction.done \in Seq(Bundle)
           /\ transaction.moved \in BOOLEAN
           /\ OnDisk(transaction.original)
           /\ \A i \in DOMAIN transaction.done :
                  transaction.done[i] \notin Named(transaction.original)
           /\ transaction.moved =>
                  /\ transaction.plan # <<>> /\ NextBundle \in dirs
                  /\ NextBundle \notin Named(lockFile) \cup Named(transaction.original)

LEMMA RestrictedNames ==
    ASSUME NEW l, LockShape(l), NEW ids
    PROVE  /\ LockShape(Restricted(l, ids))
           /\ Restricted(l, ids).version = l.version
           /\ Restricted(l, ids).history = l.history
           /\ Named(Restricted(l, ids)) = Named(l)
<1> DEFINE m == Restricted(l, ids)
<1>1. /\ DOMAIN m = DOMAIN l /\ m.version = l.version /\ m.history = l.history
      /\ m.enabled = l.enabled \cap ids /\ DOMAIN m.grants = Plugin
  BY DEF LockShape, Restricted
<1> HIDE DEF m
<1> QED
  BY <1>1 DEF m, LockShape, Named, Current, Installed

\* A plugin gets another version, and the one it had may be archived.
LEMMA NewVersionNames ==
    ASSUME NEW l, LockShape(l), DOMAIN l.version = Plugin,
           NEW p \in Plugin, NEW v, NEW h, h \subseteq Archived(l, p) \cup Named(l)
    PROVE  LET m == [l EXCEPT !.version[p] = v, !.history = h]
           IN  /\ DOMAIN m.version = Plugin
               /\ Named(m) \subseteq Named(l) \cup (IF v = 0 THEN {} ELSE {<<p, v>>})
<1> DEFINE m == [l EXCEPT !.version[p] = v, !.history = h]
<1>1. /\ m.version = [l.version EXCEPT ![p] = v] /\ m.history = h
      /\ DOMAIN m.version = Plugin
  BY DEF LockShape
<1> HIDE DEF m
<1>2. h \subseteq Named(l)
  BY DEF Archived, Named, Installed
<1>3. ASSUME NEW q \in Plugin, m.version[q] # 0
      PROVE  Current(m, q) \in Named(l) \cup (IF v = 0 THEN {} ELSE {<<p, v>>})
  <2>1. CASE p = q
    BY <1>1, <1>3, <2>1 DEF Current
  <2>2. CASE p # q
    BY <1>1, <1>3, <2>2 DEF Current, Named, Installed
  <2> QED
    BY <2>1, <2>2
<1> QED
  BY <1>1, <1>2, <1>3 DEF m, Named, Installed

LEMMA LoadedNames ==
    ASSUME MInv, BInv
    PROVE  /\ LockShape(Loaded) /\ OnDisk(Loaded)
           /\ Loaded.version = lockFile.version /\ Loaded.history = lockFile.history
           /\ Named(Loaded) = Named(lockFile)
BY RestrictedNames DEF Loaded, MInv, BInv, Sound, OnDisk

LEMMA ChangeNames ==
    ASSUME BInv, NEW lock, Change(lock), OnDisk(lock)
    PROVE  BInv'
BY DEF BInv, Change, OnDisk, Named

LEMMA CommandNames ==
    ASSUME MInv, BInv,
           \/ \E u \in User : Enable(u) \/ EnableAndSelect(u)
           \/ \E p \in Plugin : Disable(p) \/ RemovePlugin(p)
           \/ \E q : Select(q)
           \/ \E b \in Bundle : Rollback(b)
    PROVE  BInv'
<1>1. /\ LockShape(Loaded) /\ OnDisk(Loaded) /\ Loaded.version = lockFile.version
      /\ Loaded.history = lockFile.history /\ Named(Loaded) = Named(lockFile)
  BY LoadedNames
<1> DEFINE L == Loaded
<1> HIDE DEF L
<1>2. ASSUME NEW x
      PROVE  LET m == Enabled(L, x)
             IN OnDisk(m) /\ OnDisk([m EXCEPT !.owner = x]) /\ OnDisk([L EXCEPT !.owner = x])
  <2> DEFINE m == Enabled(L, x)
  <2>1. LockShape(L) /\ OnDisk(L)
    BY <1>1 DEF L
  <2>2. /\ DOMAIN m = DOMAIN L /\ m.version = L.version /\ m.history = L.history
    BY <2>1 DEF Enabled, LockShape
  <2> HIDE DEF m
  <2>3. /\ [m EXCEPT !.owner = x].version = L.version
        /\ [m EXCEPT !.owner = x].history = L.history
        /\ [L EXCEPT !.owner = x].version = L.version
        /\ [L EXCEPT !.owner = x].history = L.history
    BY <2>1, <2>2 DEF LockShape
  <2> QED
    BY <2>1, <2>2, <2>3 DEF m, OnDisk, Named, Current, Installed
<1>3. CASE \E u \in User : Enable(u)
  BY <1>2, <1>3, ChangeNames DEF Enable, L
<1>4. CASE \E u \in User : EnableAndSelect(u)
  BY <1>2, <1>4, ChangeNames DEF EnableAndSelect, L
<1>5. CASE \E q : Select(q)
  BY <1>2, <1>5, ChangeNames DEF Select, L
<1>6. ASSUME NEW ids
      PROVE  LET m == Restricted(L, ids)
             IN  LockShape(m) /\ OnDisk(m) /\ Named(m) = Named(lockFile)
                 /\ m.version = lockFile.version /\ m.history = lockFile.history
  BY <1>1, RestrictedNames DEF L, OnDisk
<1>7. CASE \E p \in Plugin : Disable(p)
  BY <1>6, <1>7, ChangeNames DEF Disable, L
<1>8. ASSUME NEW x \in Plugin, NEW v, v = 0 \/ <<x, v>> \in dirs,
             NEW h, h \subseteq Archived(lockFile, x)
      PROVE  OnDisk([Restricted(L, Plugin \ {x}) EXCEPT !.version[x] = v, !.history = h])
  <2> DEFINE m == Restricted(L, Plugin \ {x})
             n == [m EXCEPT !.version[x] = v, !.history = h]
  <2>1. /\ LockShape(m) /\ OnDisk(m) /\ m.version = lockFile.version
        /\ m.history = lockFile.history
    BY <1>6
  <2> HIDE DEF m
  <2>2. h \subseteq Archived(m, x) \cup Named(m)
    BY <1>8, <2>1 DEF Archived, Current
  <2>3. DOMAIN n.version = Plugin
        /\ Named(n) \subseteq Named(m) \cup (IF v = 0 THEN {} ELSE {<<x, v>>})
    BY <2>1, <2>2, NewVersionNames DEF OnDisk
  <2> HIDE DEF n
  <2>4. OnDisk(n)
    BY <1>8, <2>1, <2>3 DEF OnDisk
  <2> QED
    BY <2>4 DEF n, m
<1>9. CASE \E b \in Bundle : Rollback(b)
  <2>1. PICK b \in Bundle : Rollback(b)
    BY <1>9
  <2>2. b[1] \in Plugin /\ b = <<b[1], b[2]>>
    BY DEF Bundle
  <2>3. b \in dirs
    BY <2>1 DEF Rollback, Intact
  <2>4. OnDisk([Restricted(L, Plugin \ {b[1]}) EXCEPT
                    !.version[b[1]] = b[2], !.history = Archived(lockFile, b[1]) \ {b}])
    BY <1>8, <2>2, <2>3
  <2> QED
    BY <2>1, <2>4, ChangeNames DEF Rollback, L
<1>10. CASE \E p \in Plugin : RemovePlugin(p)
  BY <1>8, <1>10, ChangeNames DEF RemovePlugin, L
<1> QED
  BY <1>3, <1>4, <1>5, <1>7, <1>9, <1>10

\* The lock file a replacement writes names the bundle that was moved and, beside it,
\* nothing that was not named before.
LEMMA ReplacedNames ==
    ASSUME NEW l, LockShape(l), DOMAIN l.version = Plugin, NEW b \in Bundle, NEW policy
    PROVE  /\ DOMAIN Replaced(l, b, policy).version = Plugin
           /\ Named(Replaced(l, b, policy)) \subseteq Named(l) \cup {b}
<1> DEFINE p == b[1]
           stays == StaysEnabled(l, b, policy)
           m == Restricted(l, IF stays THEN Plugin ELSE Plugin \ {p})
           n == [m EXCEPT !.version[p] = b[2], !.history = Archived(l, p)]
           g == IF stays THEN Profile[b] ELSE NoProfile
           o == Replaced(l, b, policy)
<1>1. p \in Plugin /\ b = <<p, b[2]>>
  BY DEF Bundle
<1>2. /\ LockShape(m) /\ m.version = l.version /\ m.history = l.history
      /\ Named(m) = Named(l)
  BY RestrictedNames
<1>3. o = [m EXCEPT !.version[p] = b[2], !.history = Archived(l, p), !.grants[p] = g]
  BY DEF Replaced
<1> HIDE DEF m, p, stays
<1>4. Archived(l, p) \subseteq Archived(m, p) \cup Named(m)
  BY <1>2 DEF Archived, Current
<1>5. /\ DOMAIN n.version = Plugin
      /\ Named(n) \subseteq Named(m) \cup (IF b[2] = 0 THEN {} ELSE {<<p, b[2]>>})
  BY <1>1, <1>2, <1>4, NewVersionNames
<1>6. o.version = n.version /\ o.history = n.history
  BY <1>2, <1>3 DEF LockShape
<1> HIDE DEF n, o
<1>7. Named(o) = Named(n)
  BY <1>6 DEF Named, Installed, Current
<1>8. Named(o) \subseteq Named(l) \cup {b}
  BY <1>1, <1>2, <1>5, <1>7
<1> QED
  BY <1>5, <1>6, <1>8 DEF o

LEMMA BeginNames ==
    ASSUME MInv, BInv, NEW plan \in Seq(Bundle), NEW policy, Begin(plan, policy)
    PROVE  BInv'
<1>1. OnDisk(Loaded)
  BY LoadedNames
<1>2. /\ transaction' = [plan |-> plan, policy |-> policy, moved |-> FALSE, done |-> <<>>,
                         original |-> Loaded]
      /\ UNCHANGED <<lockFile, dirs>>
  BY DEF Begin
<1>3. /\ transaction'.plan = plan /\ transaction'.done = <<>> /\ transaction'.moved = FALSE
      /\ transaction'.original = Loaded
  BY <1>2
<1>4. OnDisk(lockFile)' /\ OnDisk(transaction.original)'
  BY <1>1, <1>2, <1>3 DEF BInv, OnDisk, Named, Current, Installed
<1>5. /\ transaction'.plan \in Seq(Bundle) /\ transaction'.done \in Seq(Bundle)
      /\ \A i \in DOMAIN transaction'.done :
             transaction'.done[i] \notin Named(transaction.original)'
  BY <1>3
<1> QED
  BY <1>3, <1>4, <1>5 DEF BInv

LEMMA MoveNames == ASSUME MInv, BInv, Move PROVE BInv'
<1>1. /\ transaction # Nothing /\ transaction.plan # <<>> /\ NextBundle \notin dirs
      /\ dirs' = dirs \cup {NextBundle} /\ lockFile' = lockFile
      /\ transaction' = [transaction EXCEPT !.moved = TRUE]
  BY DEF Move, Fits
<1>2. /\ transaction'.plan = transaction.plan /\ transaction'.done = transaction.done
      /\ transaction'.moved = TRUE /\ transaction'.original = transaction.original
  BY <1>1 DEF MInv, TransactionShape
<1>3. NextBundle' = NextBundle
  BY <1>2 DEF NextBundle
<1>4. /\ Named(lockFile)' = Named(lockFile)
      /\ Named(transaction.original)' = Named(transaction.original)
  BY <1>1, <1>2 DEF Named
<1> QED
  BY <1>1, <1>2, <1>3, <1>4 DEF BInv, OnDisk

LEMMA CommitNames == ASSUME MInv, BInv, Commit PROVE BInv'
<1> DEFINE b == NextBundle
           lock == Replaced(Loaded, b, transaction.policy)
<1>1. /\ transaction # Nothing /\ transaction.moved
      /\ lockFile' = lock /\ dirs' = dirs
      /\ transaction' = [transaction EXCEPT !.plan = Tail(@), !.moved = FALSE,
                                            !.done = Append(@, b)]
  BY DEF Commit
<1>2. /\ transaction.plan \in Seq(Bundle) /\ transaction.plan # <<>>
      /\ transaction.done \in Seq(Bundle)
      /\ b \in dirs /\ b \notin Named(transaction.original)
      /\ OnDisk(transaction.original)
      /\ \A i \in DOMAIN transaction.done :
             transaction.done[i] \notin Named(transaction.original)
  BY <1>1 DEF BInv
<1>3. b \in Bundle
  BY <1>2 DEF NextBundle
<1>4. /\ transaction'.plan = Tail(transaction.plan)
      /\ transaction'.done = Append(transaction.done, b)
      /\ transaction'.moved = FALSE /\ transaction'.original = transaction.original
  BY <1>1 DEF MInv, TransactionShape
<1>5. /\ LockShape(Loaded) /\ OnDisk(Loaded) /\ Named(Loaded) = Named(lockFile)
  BY LoadedNames
<1>6. DOMAIN lock.version = Plugin /\ Named(lock) \subseteq Named(Loaded) \cup {b}
  BY <1>3, <1>5, ReplacedNames DEF OnDisk
<1> HIDE DEF lock, b
<1>7. OnDisk(lockFile)' /\ OnDisk(transaction.original)'
      /\ Named(transaction.original)' = Named(transaction.original)
  BY <1>1, <1>2, <1>4, <1>5, <1>6 DEF OnDisk, Named
<1>8. transaction'.plan \in Seq(Bundle) /\ transaction'.done \in Seq(Bundle)
  BY <1>2, <1>3, <1>4
<1>9. \A i \in DOMAIN transaction'.done : transaction'.done[i] \notin Named(transaction.original)
  BY <1>2, <1>3, <1>4
<1> QED
  BY <1>4, <1>7, <1>8, <1>9 DEF BInv

\* What is removed from disk is named by neither lock file.
LEMMA FailNames == ASSUME MInv, BInv, NEW fault \in BOOLEAN, Fail(fault) PROVE BInv'
<1> DEFINE moved == IF transaction.moved THEN {NextBundle} ELSE {}
           done == {transaction.done[i] : i \in DOMAIN transaction.done}
<1>1. /\ transaction # Nothing /\ transaction' = Nothing
      /\ \/ Undo /\ dirs' = dirs \ (moved \cup done)
         \/ UNCHANGED lockFile /\ dirs' \in {dirs, dirs \ moved}
  BY DEF Fail
<1>2. /\ OnDisk(lockFile) /\ OnDisk(transaction.original)
      /\ moved \cap Named(lockFile) = {}
      /\ (moved \cup done) \cap Named(transaction.original) = {}
  BY <1>1 DEF BInv
<1> HIDE DEF moved, done
<1>3. CASE Undo /\ dirs' = dirs \ (moved \cup done)
  <2>1. OnDisk(lockFile)'
    BY <1>2, <1>3 DEF Undo, OnDisk, Named
  <2> QED
    BY <1>1, <2>1 DEF BInv
<1>4. CASE UNCHANGED lockFile /\ dirs' \in {dirs, dirs \ moved}
  <2>1. OnDisk(lockFile)'
    BY <1>2, <1>4 DEF OnDisk, Named
  <2> QED
    BY <1>1, <2>1 DEF BInv
<1> QED
  BY <1>1, <1>3, <1>4

LEMMA BInvStep == ASSUME MInv, BInv, [Next]_managerVars PROVE BInv'
<1>1. CASE UNCHANGED <<lockFile, dirs, transaction>>
  BY <1>1 DEF BInv, OnDisk, Named, NextBundle
<1>2. CASE UNCHANGED managerVars
  BY <1>1, <1>2 DEF managerVars
<1>3. ASSUME NEW u \in User, NEW p \in Plugin, Show(u, p) PROVE BInv'
  BY <1>1, <1>3 DEF Show
<1>4. ASSUME NEW b \in Bundle, Damage(b) PROVE BInv'
  BY <1>1, <1>4 DEF Damage
<1>5. CASE Done \/ Crash
  <2>1. transaction' = Nothing /\ UNCHANGED <<lockFile, dirs>>
    BY <1>5 DEF Done, Crash
  <2> QED
    BY <2>1 DEF BInv, OnDisk, Named
<1>6. ASSUME NEW plan \in Plans(lockFile) PROVE plan \in Seq(Bundle)
  <2>1. CASE \E b \in Bundle : plan = <<b>>
    BY <2>1
  <2>2. CASE plan \in Bundle \X Bundle
    <3>1. plan = <<plan[1], plan[2]>> /\ plan[1] \in Bundle /\ plan[2] \in Bundle
      BY <2>2
    <3> DEFINE a == plan[1]
               b == plan[2]
    <3> HIDE DEF a, b
    <3>2. <<a, b>> \in Seq(Bundle)
      BY <3>1 DEF a, b
    <3> QED
      BY <3>1, <3>2 DEF a, b
  <2> QED
    BY <1>6, <2>1, <2>2 DEF Plans, Ready, Pairs
<1>7. ASSUME NEW plan \in Plans(lockFile), Begin(plan, "install") PROVE BInv'
  BY <1>6, <1>7, BeginNames
<1>8. ASSUME NEW b \in Bundle, NEW policy \in {"review", "official"}, Begin(<<b>>, policy)
      PROVE  BInv'
  <2>1. <<b>> \in Seq(Bundle)
    OBVIOUS
  <2> QED
    BY <1>8, <2>1, BeginNames
<1>9. ASSUME NEW fault \in BOOLEAN, Fail(fault) PROVE BInv'
  BY <1>9, FailNames
<1>10. CASE \/ \E u \in User : Enable(u) \/ EnableAndSelect(u)
            \/ \E p \in Plugin : Disable(p) \/ Select(p) \/ RemovePlugin(p)
            \/ Select(NoPlugin)
            \/ \E b \in Bundle : Rollback(b)
  BY <1>10, CommandNames
<1>11. CASE Move \/ Commit
  BY <1>11, MoveNames, CommitNames
<1> QED
  BY <1>2, <1>3, <1>4, <1>5, <1>7, <1>8, <1>9, <1>10, <1>11 DEF Next

LEMMA BInvInit == Init => BInv
BY DEF Init, BInv, OnDisk, Named, Installed

(* Wherever a process stopped and whichever write failed, the bundles that  *)
(* the lock file names are on disk, for any plugins, versions and faults.   *)
THEOREM BundlesCorrect == Spec => []LockedBundlesExist
<1>1. MInv /\ BInv /\ [Next]_managerVars => BInv'
  BY BInvStep
<1>2. BInv => LockedBundlesExist
  BY DEF BInv, OnDisk, Named, LockedBundlesExist
<1> QED
  BY <1>1, <1>2, BInvInit, ManagerInductive, PTL DEF Spec

(* Both together: what the next start loads was agreed to, and is there.   *)
THEOREM ManagerCorrect == Spec => []ManagerSound
BY EnabledCorrect, BundlesCorrect, PTL DEF ManagerSound


------------------------------------------------------------------------------
(* ServiceCalls, for all finite sets of plugins and frames, any graph of   *)
(* dependencies and any budget.                                            *)

Call == [state : {"free", "waiting", "running"}, plugin : Component \cup {NoFrame},
         chain : Seq(Component), caller : Frame \cup {NoFrame}, retire : BOOLEAN,
         orphan : BOOLEAN, until : Nat]

CallTypes ==
    /\ clock \in Nat /\ slot \in [Component -> {"full", "empty"}]
    /\ dependencies \in [Component -> SUBSET Component]
    /\ \A p \in Component : p \notin dependencies[p]
    /\ frames \in [Frame -> Call]

\* A call that is under way is of a plugin, the one its chain ends with.
Placed(f) ==
    frames[f].state # "free" =>
        /\ frames[f].plugin \in Component
        /\ frames[f].chain # <<>> => frames[f].plugin \in ToSet(frames[f].chain)

\* Whom somebody waits for is below him in the dependencies, and is not given longer.
Nested(f) ==
    frames[f].state # "free" /\ frames[f].caller # NoFrame =>
        /\ frames[frames[f].caller].state = "running"
        /\ frames[f].plugin \in dependencies[frames[frames[f].caller].plugin]
        /\ frames[f].until <= frames[frames[f].caller].until

\* One call has the Store, which is out of its slot and was never cut off.
Holds(f) ==
    frames[f].state = "running" =>
        /\ slot[frames[f].plugin] = "empty" /\ frames[f].plugin \notin broken
        /\ \A g \in Running : frames[g].plugin = frames[f].plugin => g = f

\* Only a call that runs is left alone, at its deadline.
Orphaned(f) ==
    /\ frames[f].state = "waiting" => ~frames[f].orphan
    /\ frames[f].state = "running" /\ frames[f].orphan => frames[f].until <= clock

FrameInv(f) == Placed(f) /\ Nested(f) /\ Holds(f) /\ Orphaned(f)
CallInv == CallTypes /\ StoresAccounted /\ \A f \in Frame : FrameInv(f)

LEMMA CallInit == ASSUME CallsAssumption, CallsInit PROVE CallInv
<1>1. Free \in Call
  BY DEF Free, Call
<1>2. Free.state = "free"
  BY DEF Free
<1>3. CallTypes
  BY <1>1 DEF CallsInit, CallTypes
<1>4. \A f \in Frame : FrameInv(f)
  BY <1>2 DEF CallsInit, FrameInv, Placed, Nested, Holds, Orphaned
<1>5. StoresAccounted
  BY DEF CallsInit, StoresAccounted
<1> QED
  BY <1>3, <1>4, <1>5 DEF CallInv

LEMMA UntilBounds ==
    ASSUME CallsAssumption, CallTypes, NEW c \in Frame \cup {NoFrame}
    PROVE  Until(c) \in Nat /\ (c # NoFrame => Until(c) <= frames[c].until)
<1>1. clock + Budget \in Nat
  BY DEF CallTypes, CallsAssumption
<1>2. c # NoFrame => frames[c].until \in Nat
  BY DEF CallTypes, Call
<1> QED
  BY <1>1, <1>2 DEF Until

\* What enters waits; it may be waited for.
LEMMA EnterKept ==
    ASSUME CallsAssumption, CallInv, NEW f \in Frame, NEW p \in Component, NEW chain \in Seq(Component),
           NEW caller \in Frame \cup {NoFrame}, NEW retire \in BOOLEAN,
           Enter(f, p, chain, caller, retire),
           chain # <<>> => p \in ToSet(chain),
           caller # NoFrame => caller \in Running /\ p \in dependencies[frames[caller].plugin],
           UNCHANGED <<dependencies, listed, slot, broken, clock>>
    PROVE  CallInv'
<1> DEFINE new == [state |-> "waiting", plugin |-> p, chain |-> chain, caller |-> caller,
                   retire |-> retire, orphan |-> FALSE, until |-> Until(caller)]
<1>1. CallTypes /\ StoresAccounted /\ \A g \in Frame : FrameInv(g)
  BY DEF CallInv
<1>2. frames[f].state = "free" /\ frames' = [frames EXCEPT ![f] = new]
  BY DEF Enter
<1>3. Until(caller) \in Nat /\ (caller # NoFrame => Until(caller) <= frames[caller].until)
  BY <1>1, UntilBounds
<1>4. new \in Call
  BY <1>3 DEF Call
<1>5. /\ new.state = "waiting" /\ new.plugin = p /\ new.chain = chain /\ new.caller = caller
      /\ new.orphan = FALSE /\ new.until = Until(caller)
  OBVIOUS
<1> HIDE DEF new
<1>6. /\ frames' \in [Frame -> Call] /\ frames'[f] = new
      /\ \A g \in Frame \ {f} : frames'[g] = frames[g]
  BY <1>1, <1>2, <1>4 DEF CallTypes
<1>7. Running' = Running
  BY <1>2, <1>5, <1>6 DEF Running
<1>8. \A g \in Frame : g # f => frames[g].caller # f \/ frames[g].state = "free"
  BY <1>1, <1>2 DEF FrameInv, Nested, CallsAssumption
<1>9. CallTypes'
  BY <1>1, <1>6 DEF CallTypes
<1>10. StoresAccounted'
  <2>1. \A g \in Running : frames'[g] = frames[g]
    BY <1>2, <1>6 DEF Running
  <2> QED
    BY <1>1, <1>7, <2>1 DEF StoresAccounted
<1>11. ASSUME NEW g \in Frame PROVE FrameInv(g)'
  <2>1. CASE g = f
    <3>1. Placed(f)' /\ Holds(f)' /\ Orphaned(f)'
      BY <1>5, <1>6 DEF Placed, Holds, Orphaned
    <3>2. Nested(f)'
      <4>1. CASE caller = NoFrame
        BY <1>5, <1>6, <4>1 DEF Nested
      <4>2. CASE caller # NoFrame
        <5>1. caller \in Frame /\ caller # f /\ frames[caller].state = "running"
          BY <1>2, <4>2 DEF Running
        <5> QED
          BY <1>3, <1>5, <1>6, <4>2, <5>1 DEF Nested
      <4> QED
        BY <4>1, <4>2
    <3> QED
      BY <2>1, <3>1, <3>2 DEF FrameInv
  <2>2. CASE g # f
    <3>1. frames'[g] = frames[g] /\ FrameInv(g)
      BY <1>1, <1>6, <2>2
    <3>2. Placed(g)' /\ Orphaned(g)'
      BY <3>1 DEF FrameInv, Placed, Orphaned
    <3>3. Nested(g)'
      <4>1. CASE frames[g].state # "free" /\ frames[g].caller # NoFrame
        <5>1. frames[g].caller \in Frame \ {f}
          BY <1>1, <1>8, <2>2, <4>1 DEF CallTypes, Call
        <5>2. frames'[frames[g].caller] = frames[frames[g].caller]
          BY <1>6, <5>1
        <5> QED
          BY <3>1, <4>1, <5>2 DEF FrameInv, Nested
      <4>2. CASE ~(frames[g].state # "free" /\ frames[g].caller # NoFrame)
        BY <3>1, <4>2 DEF Nested
      <4> QED
        BY <4>1, <4>2
    <3>4. Holds(g)'
      <4>1. \A h \in Running : frames'[h] = frames[h]
        BY <1>2, <1>6 DEF Running
      <4> QED
        BY <1>7, <3>1, <4>1 DEF FrameInv, Holds
    <3> QED
      BY <3>2, <3>3, <3>4 DEF FrameInv
  <2> QED
    BY <2>1, <2>2
<1> QED
  BY <1>9, <1>10, <1>11 DEF CallInv

LEMMA EntersKept ==
    ASSUME CallsAssumption, CallInv, NEW f \in Frame, NEW p \in Component,
           Export(f, p) \/ AppCall(f, p) \/ Deactivate(f, p)
             \/ \E caller \in Frame : GuestCall(f, caller, p)
    PROVE  CallInv'
<1>0. <<>> \in Seq(Component) /\ <<p>> \in Seq(Component) /\ p \in ToSet(<<p>>)
  BY DEF ToSet
<1>1. CASE Export(f, p) \/ Deactivate(f, p)
  BY <1>0, <1>1, EnterKept DEF Export, Deactivate
<1>2. CASE AppCall(f, p)
  BY <1>0, <1>2, EnterKept DEF AppCall
<1>3. ASSUME NEW caller \in Frame, GuestCall(f, caller, p) PROVE CallInv'
  <2>1. CallTypes /\ FrameInv(caller)
    BY DEF CallInv
  <2>2. /\ caller \in Running /\ frames[caller].state = "running"
        /\ p = frames[caller].plugin \/ p \in dependencies[frames[caller].plugin]
        /\ p \notin ToSet(Chain(caller))
        /\ Enter(f, p, Append(Chain(caller), p), caller, FALSE)
        /\ UNCHANGED <<dependencies, listed, slot, broken, clock>>
    BY <1>3 DEF GuestCall, Declared, Running
  <2>3. frames[caller].plugin \in Component /\ frames[caller].chain \in Seq(Component)
    BY <2>1, <2>2 DEF CallTypes, Call, FrameInv, Placed
  <2>4. /\ Chain(caller) \in Seq(Component)
        /\ frames[caller].plugin \in ToSet(Chain(caller))
    BY <2>1, <2>2, <2>3 DEF Chain, FrameInv, Placed, ToSet
  <2>5. /\ Append(Chain(caller), p) \in Seq(Component)
        /\ p \in ToSet(Append(Chain(caller), p))
    <3> DEFINE s == Chain(caller)
    <3>1. s \in Seq(Component)
      BY <2>4
    <3> HIDE DEF s
    <3>2. /\ Append(s, p) \in Seq(Component) /\ Append(s, p)[Len(s) + 1] = p
          /\ Len(s) + 1 \in DOMAIN Append(s, p)
      BY <3>1
    <3> QED
      BY <3>2 DEF ToSet, s
  <2>6. p \in dependencies[frames[caller].plugin] /\ caller # NoFrame
    BY <2>2, <2>4 DEF CallsAssumption
  <2> QED
    BY <2>2, <2>5, <2>6, EnterKept
<1> QED
  BY <1>1, <1>2, <1>3

\* The Store leaves its slot with the call that takes it.
LEMMA AcquireKept ==
    ASSUME CallsAssumption, CallInv, NEW f \in Frame, Acquire(f)
    PROVE  CallInv'
<1> DEFINE c == frames[f]
           new == [c EXCEPT !.state = "running", !.until = Until(c.caller)]
<1>1. CallTypes /\ StoresAccounted /\ \A g \in Frame : FrameInv(g)
  BY DEF CallInv
<1>2. /\ c.state = "waiting" /\ \A g \in Running : frames[g].plugin # c.plugin
      /\ slot[c.plugin] = "full" /\ slot' = [slot EXCEPT ![c.plugin] = "empty"]
      /\ frames' = [frames EXCEPT ![f] = new]
      /\ UNCHANGED <<dependencies, listed, broken, clock>>
  BY DEF Acquire, Waiting
<1>3. c \in Call /\ c.plugin \in Component /\ c.caller \in Frame \cup {NoFrame} /\ ~c.orphan
  BY <1>1, <1>2 DEF CallTypes, Call, FrameInv, Placed, Orphaned
<1>4. Until(c.caller) \in Nat /\ (c.caller # NoFrame => Until(c.caller) <= frames[c.caller].until)
  BY <1>1, <1>3, UntilBounds
<1>5. /\ new \in Call /\ new.state = "running" /\ new.plugin = c.plugin /\ new.chain = c.chain
      /\ new.caller = c.caller /\ new.orphan = c.orphan /\ new.until = Until(c.caller)
  BY <1>3, <1>4 DEF Call
<1>6. FrameInv(f) /\ f \notin Running
  BY <1>1, <1>2 DEF Running
<1>7. c.plugin \notin broken
  BY <1>1, <1>2, <1>3 DEF StoresAccounted
<1> HIDE DEF new
<1>8. /\ frames' \in [Frame -> Call] /\ frames'[f] = new
      /\ \A g \in Frame \ {f} : frames'[g] = frames[g]
      /\ slot' \in [Component -> {"full", "empty"}] /\ slot'[c.plugin] = "empty"
      /\ \A p \in Component \ {c.plugin} : slot'[p] = slot[p]
  BY <1>1, <1>2, <1>3, <1>5 DEF CallTypes
<1> HIDE DEF c
<1>9. Running' = Running \cup {f} /\ \A g \in Running : g # f /\ frames'[g] = frames[g]
  BY <1>5, <1>6, <1>8 DEF Running
<1>10. CallTypes'
  BY <1>1, <1>2, <1>8 DEF CallTypes
<1>11. StoresAccounted'
  <2> SUFFICES ASSUME NEW p \in Component, \A g \in Running' : frames'[g].plugin # p
               PROVE  IF slot'[p] = "full" THEN p \notin broken' ELSE p \notin listed'
    BY DEF StoresAccounted
  <2>1. p # c.plugin /\ \A g \in Running : frames[g].plugin # p
    BY <1>5, <1>8, <1>9
  <2> QED
    BY <1>1, <1>2, <1>8, <2>1 DEF StoresAccounted
<1>12. ASSUME NEW g \in Frame PROVE FrameInv(g)'
  <2>1. CASE g = f
    <3>1. Placed(f)' /\ Orphaned(f)'
      BY <1>2, <1>3, <1>5, <1>6, <1>8 DEF FrameInv, Placed, Orphaned, c
    <3>2. Holds(f)'
      BY <1>2, <1>5, <1>7, <1>8, <1>9 DEF Holds
    <3>3. Nested(f)'
      <4>1. CASE c.caller = NoFrame
        BY <1>5, <1>8, <4>1 DEF Nested
      <4>2. CASE c.caller # NoFrame
        <5>1. /\ c.caller \in Frame /\ c.caller # f /\ frames[c.caller].state = "running"
              /\ c.plugin \in dependencies[frames[c.caller].plugin]
          BY <1>2, <1>3, <1>6, <4>2 DEF FrameInv, Nested, Running, c
        <5> QED
          BY <1>2, <1>4, <1>5, <1>8, <4>2, <5>1 DEF Nested
      <4> QED
        BY <4>1, <4>2
    <3> QED
      BY <2>1, <3>1, <3>2, <3>3 DEF FrameInv
  <2>2. CASE g # f
    <3>1. frames'[g] = frames[g] /\ FrameInv(g)
      BY <1>1, <1>8, <2>2
    <3>2. Placed(g)' /\ Orphaned(g)'
      BY <1>2, <3>1 DEF FrameInv, Placed, Orphaned
    <3>3. Nested(g)'
      <4>1. CASE frames[g].state # "free" /\ frames[g].caller # NoFrame
        <5>1. /\ frames[g].caller \in Frame
              /\ frames[frames[g].caller].state = "running" /\ frames[g].caller # f
          BY <1>1, <1>2, <3>1, <4>1 DEF CallTypes, Call, FrameInv, Nested, c
        <5> QED
          BY <1>2, <1>8, <3>1, <4>1, <5>1 DEF FrameInv, Nested
      <4>2. CASE ~(frames[g].state # "free" /\ frames[g].caller # NoFrame)
        BY <3>1, <4>2 DEF Nested
      <4> QED
        BY <4>1, <4>2
    <3>4. Holds(g)'
      <4> SUFFICES ASSUME frames'[g].state = "running" PROVE Holds(g)'
        BY DEF Holds
      <4>1. /\ g \in Running /\ frames[g].plugin \in Component /\ frames[g].plugin # c.plugin
        BY <1>2, <3>1 DEF Running, FrameInv, Placed
      <4> QED
        BY <1>2, <1>5, <1>8, <1>9, <3>1, <4>1 DEF Running, FrameInv, Holds
    <3> QED
      BY <3>2, <3>3, <3>4 DEF FrameInv
  <2> QED
    BY <2>1, <2>2
<1> QED
  BY <1>10, <1>11, <1>12 DEF CallInv

\* What leaves, with no call of its own left, leaves the others as they are; the Store it
\* had goes back to its slot or is forgotten.
LEMMA LeaveKept ==
    ASSUME CallsAssumption, CallInv, NEW f \in Frame, Calls(f) = {},
           frames' = [frames EXCEPT ![f] = Free],
           UNCHANGED <<dependencies, broken, clock>>,
           slot' \in [Component -> {"full", "empty"}], listed' \subseteq listed,
           \A p \in Component :
              \/ slot'[p] = slot[p] /\ (f \in Running /\ frames[f].plugin = p => p \notin listed')
              \/ slot'[p] = "full" /\ f \in Running /\ frames[f].plugin = p
    PROVE  CallInv'
<1>1. CallTypes /\ StoresAccounted /\ \A g \in Frame : FrameInv(g)
  BY DEF CallInv
<1>2. Free \in Call /\ Free.state = "free"
  BY DEF Free, Call
<1>3. /\ frames' \in [Frame -> Call] /\ frames'[f] = Free
      /\ \A g \in Frame \ {f} : frames'[g] = frames[g]
  BY <1>1, <1>2 DEF CallTypes
<1>4. Running' = Running \ {f}
  BY <1>2, <1>3 DEF Running
<1>5. CallTypes'
  BY <1>1, <1>3 DEF CallTypes
<1>6. ASSUME NEW g \in Frame, g # f PROVE FrameInv(g)'
  <2>1. frames'[g] = frames[g] /\ FrameInv(g)
    BY <1>1, <1>3, <1>6
  <2>2. Placed(g)' /\ Orphaned(g)'
    BY <2>1 DEF FrameInv, Placed, Orphaned
  <2>3. Nested(g)'
    <3>1. CASE frames[g].state # "free" /\ frames[g].caller # NoFrame
      <4>1. frames[g].caller \in Frame \ {f}
        BY <1>1, <3>1 DEF CallTypes, Call, Calls
      <4> QED
        BY <1>3, <2>1, <3>1, <4>1 DEF FrameInv, Nested
    <3>2. CASE ~(frames[g].state # "free" /\ frames[g].caller # NoFrame)
      BY <2>1, <3>2 DEF Nested
    <3> QED
      BY <3>1, <3>2
  <2>4. Holds(g)'
    <3> SUFFICES ASSUME frames[g].state = "running" PROVE Holds(g)'
      BY <2>1 DEF Holds
    <3>1. /\ frames[g].plugin \in Component /\ slot[frames[g].plugin] = "empty"
          /\ frames[g].plugin \notin broken
          /\ \A h \in Running : frames[h].plugin = frames[g].plugin => h = g
      BY <2>1 DEF FrameInv, Placed, Holds
    <3>2. slot'[frames[g].plugin] = "empty"
      BY <1>6, <3>1
    <3> QED
      BY <1>3, <1>4, <2>1, <3>1, <3>2 DEF Holds
  <2> QED
    BY <2>2, <2>3, <2>4 DEF FrameInv
<1>7. FrameInv(f)'
  BY <1>2, <1>3 DEF FrameInv, Placed, Nested, Holds, Orphaned
<1>8. StoresAccounted'
  <2> SUFFICES ASSUME NEW p \in Component, \A g \in Running' : frames'[g].plugin # p
               PROVE  IF slot'[p] = "full" THEN p \notin broken ELSE p \notin listed'
    BY DEF StoresAccounted
  <2>1. \A g \in Running \ {f} : frames[g].plugin # p
    BY <1>3, <1>4 DEF Running
  <2>2. CASE f \in Running /\ frames[f].plugin = p
    <3>1. slot[p] = "empty" /\ p \notin broken
      BY <1>1, <2>2 DEF FrameInv, Holds, Running
    <3> QED
      BY <2>2, <3>1
  <2>3. CASE ~(f \in Running /\ frames[f].plugin = p)
    <3>1. \A g \in Running : frames[g].plugin # p
      BY <2>1, <2>3
    <3>2. slot'[p] = slot[p]
      BY <2>3
    <3> QED
      BY <1>1, <3>1, <3>2 DEF StoresAccounted
  <2> QED
    BY <2>2, <2>3
<1> QED
  BY <1>5, <1>6, <1>7, <1>8 DEF CallInv

LEMMA EndsKept ==
    ASSUME CallsAssumption, CallInv, NEW f \in Frame, GiveUp(f) \/ Return(f)
    PROVE  CallInv'
<1>1. CallTypes /\ FrameInv(f) /\ \A g \in Frame : FrameInv(g)
  BY DEF CallInv
<1>2. CASE GiveUp(f)
  <2>1. /\ frames[f].state = "waiting" /\ f \notin Running
        /\ frames' = [frames EXCEPT ![f] = Free] /\ listed' \subseteq listed
        /\ UNCHANGED <<dependencies, slot, broken, clock>>
    BY <1>2 DEF GiveUp, Waiting, Running
  <2>2. Calls(f) = {}
    BY <1>1, <2>1 DEF Calls, FrameInv, Nested, CallsAssumption
  <2> QED
    BY <1>1, <2>1, <2>2, LeaveKept DEF CallTypes
<1>3. CASE Return(f)
  <2>1. /\ f \in Running /\ Calls(f) = {}
        /\ frames' = [frames EXCEPT ![f] = Free]
        /\ \/ slot' = slot /\ listed' = listed \ {frames[f].plugin}
           \/ slot' = [slot EXCEPT ![frames[f].plugin] = "full"] /\ listed' = listed
        /\ UNCHANGED <<dependencies, broken, clock>>
    BY <1>3 DEF Return, Forgotten
  <2>2. frames[f].plugin \in Component
    BY <1>1, <2>1 DEF Running, FrameInv, Placed
  <2>3. CASE slot' = slot /\ listed' = listed \ {frames[f].plugin}
    BY <1>1, <2>1, <2>3, LeaveKept DEF CallTypes
  <2>4. CASE slot' = [slot EXCEPT ![frames[f].plugin] = "full"] /\ listed' = listed
    <3>1. /\ slot' \in [Component -> {"full", "empty"}]
          /\ \A p \in Component : slot'[p] = IF p = frames[f].plugin THEN "full" ELSE slot[p]
      BY <1>1, <2>2, <2>4 DEF CallTypes
    <3> QED
      BY <2>1, <2>4, <3>1, LeaveKept
  <2> QED
    BY <2>1, <2>3, <2>4
<1> QED
  BY <1>2, <1>3

\* A call that is cut off takes its Store and the waits inside it with it; one that runs
\* inside it goes on alone, no longer than it could have.
LEMMA ExpireKept ==
    ASSUME CallsAssumption, CallInv, NEW f \in Frame, Expire(f)
    PROVE  CallInv'
<1> DEFINE p == frames[f].plugin
           gone == {g \in Frame : g = f \/ (g \in Waiting /\ frames[g].caller = f)}
           left == {g \in Running : g # f /\ frames[g].caller = f}
<1>1. CallTypes /\ StoresAccounted /\ \A g \in Frame : FrameInv(g)
  BY DEF CallInv
<1>2. /\ f \in Running /\ frames[f].until <= clock
      /\ frames' = [g \in Frame |->
             IF g = f \/ (g \in Waiting /\ frames[g].caller = f) THEN Free
             ELSE IF g \in Running /\ frames[g].caller = f
                  THEN [frames[g] EXCEPT !.caller = NoFrame, !.orphan = TRUE]
                  ELSE frames[g]]
      /\ slot' = slot /\ broken' = broken \cup {p} /\ listed' = listed \ {p}
      /\ UNCHANGED <<dependencies, clock>>
  BY DEF Expire, Restored, Forgotten
<1>3. Free \in Call /\ Free.state = "free"
  BY DEF Free, Call
<1>4. frames[f].state = "running" /\ p \in Component
  BY <1>1, <1>2 DEF Running, FrameInv, Placed
<1>5. ASSUME NEW g \in Frame
      PROVE  /\ frames'[g] \in Call
             /\ g \in gone => frames'[g] = Free
             /\ g \in left =>
                    /\ frames'[g].state = "running" /\ frames'[g].plugin = frames[g].plugin
                    /\ frames'[g].chain = frames[g].chain /\ frames'[g].caller = NoFrame
                    /\ frames'[g].orphan = TRUE /\ frames'[g].until = frames[g].until
             /\ g \notin gone \cup left => frames'[g] = frames[g]
  <2>1. frames[g] \in Call
    BY <1>1 DEF CallTypes
  <2>2. CASE g \in gone
    BY <1>2, <1>3, <2>2 DEF Running, Waiting
  <2>3. CASE g \in left
    <3>1. g \notin gone
      BY <2>3 DEF Running, Waiting
    <3>2. frames'[g] = [frames[g] EXCEPT !.caller = NoFrame, !.orphan = TRUE]
      BY <1>2, <2>3, <3>1
    <3> QED
      BY <2>1, <2>3, <3>1, <3>2 DEF Call, Running
  <2>4. CASE g \notin gone \cup left
    BY <1>2, <2>1, <2>4
  <2> QED
    BY <2>2, <2>3, <2>4
<1>6. /\ gone \cap Running = {f} /\ left \subseteq Running /\ f \in gone
      /\ left \cap gone = {}
  BY <1>2 DEF Running, Waiting
<1>7. Running' = Running \ {f}
  <2>1. ASSUME NEW g \in Frame PROVE frames'[g].state = "running" <=> g \in Running /\ g # f
    <3>1. CASE g \in gone
      BY <1>3, <1>5, <1>6, <3>1
    <3>2. CASE g \in left
      BY <1>5, <1>6, <3>2
    <3>3. CASE g \notin gone \cup left
      BY <1>5, <1>6, <3>3 DEF Running
    <3> QED
      BY <3>1, <3>2, <3>3
  <2> QED
    BY <2>1 DEF Running
<1>8. \A g \in Running : g # f => frames'[g].plugin = frames[g].plugin
  BY <1>5, <1>6 DEF Running
<1>9. \A g \in Frame \ gone : frames[g].state # "free" => frames[g].caller # f \/ g \in left
  BY <1>1 DEF CallTypes, Call, Waiting, Running
<1> HIDE DEF gone, left
<1>10. CallTypes'
  <2>1. frames' \in [Frame -> Call]
    BY <1>2, <1>5
  <2> QED
    BY <1>1, <1>2, <2>1 DEF CallTypes
<1>11. ASSUME NEW g \in Frame PROVE FrameInv(g)'
  <2>0. FrameInv(g)
    BY <1>1
  <2>1. CASE g \in gone
    BY <1>3, <1>5, <2>1 DEF FrameInv, Placed, Nested, Holds, Orphaned
  <2>2. g \in Running /\ g # f => frames[g].plugin # p
    BY <1>1, <1>2, <2>0 DEF FrameInv, Holds, Running
  <2>3. ASSUME frames'[g].state = "running", g \notin gone PROVE Holds(g)'
    <3>1. g \in Running /\ g # f /\ frames'[g].plugin = frames[g].plugin
      BY <1>6, <1>7, <1>8, <2>3 DEF Running
    <3>2. /\ slot[frames[g].plugin] = "empty" /\ frames[g].plugin \notin broken
          /\ \A h \in Running : frames[h].plugin = frames[g].plugin => h = g
      BY <2>0, <3>1 DEF FrameInv, Holds, Running
    <3>3. frames[g].plugin # p
      BY <2>2, <3>1
    <3>4. slot'[frames[g].plugin] = "empty" /\ frames[g].plugin \notin broken'
      BY <1>2, <3>2, <3>3
    <3>5. \A h \in Running' : frames'[h].plugin = frames[g].plugin => h = g
      BY <1>7, <1>8, <3>2
    <3> QED
      BY <3>1, <3>4, <3>5 DEF Holds
  <2>4. CASE g \in left
    <3>1. frames[g].state = "running" /\ frames[g].caller = f /\ g \notin gone
      BY <1>6, <2>4 DEF Running, left
    <3>2. frames[g].until <= clock
      <4>1. f # NoFrame
        BY DEF CallsAssumption
      <4>2. frames[g].until <= frames[f].until
        BY <2>0, <3>1, <4>1 DEF FrameInv, Nested
      <4>3. frames[g].until \in Nat /\ frames[f].until \in Nat /\ clock \in Nat
        BY <1>1 DEF CallTypes, Call
      <4>4. frames[f].until <= clock
        BY <1>2
      <4> QED
        BY <4>2, <4>3, <4>4
    <3>3. Placed(g)' /\ Nested(g)' /\ Orphaned(g)'
      BY <1>2, <1>5, <2>0, <2>4, <3>1, <3>2 DEF FrameInv, Placed, Nested, Orphaned
    <3> QED
      BY <1>5, <2>3, <2>4, <3>1, <3>3 DEF FrameInv
  <2>5. CASE g \notin gone \cup left
    <3>1. frames'[g] = frames[g]
      BY <1>5, <2>5
    <3>2. Placed(g)' /\ Orphaned(g)'
      BY <1>2, <2>0, <3>1 DEF FrameInv, Placed, Orphaned
    <3>3. Nested(g)'
      <4>1. CASE frames[g].state # "free" /\ frames[g].caller # NoFrame
        <5> DEFINE h == frames[g].caller
        <5>1. h \in Frame /\ frames[h].state = "running" /\ h # f
          BY <1>1, <1>9, <2>0, <2>5, <4>1 DEF CallTypes, Call, FrameInv, Nested
        <5>2. h \in Running /\ h \notin gone
          BY <1>6, <5>1 DEF Running
        <5>3. frames'[h].state = "running" /\ frames'[h].plugin = frames[h].plugin
              /\ frames'[h].until = frames[h].until
          <6>1. CASE h \in left
            BY <1>5, <5>1, <6>1
          <6>2. CASE h \notin left
            BY <1>5, <5>1, <5>2, <6>2
          <6> QED
            BY <6>1, <6>2
        <5> QED
          BY <1>2, <2>0, <3>1, <4>1, <5>3 DEF FrameInv, Nested
      <4>2. CASE ~(frames[g].state # "free" /\ frames[g].caller # NoFrame)
        BY <3>1, <4>2 DEF Nested
      <4> QED
        BY <4>1, <4>2
    <3>4. Holds(g)'
      BY <2>3, <2>5 DEF Holds
    <3> QED
      BY <3>2, <3>3, <3>4 DEF FrameInv
  <2> QED
    BY <2>1, <2>4, <2>5
<1>12. StoresAccounted'
  <2> SUFFICES ASSUME NEW q \in Component, \A g \in Running' : frames'[g].plugin # q
               PROVE  IF slot[q] = "full" THEN q \notin broken' ELSE q \notin listed'
    BY <1>2 DEF StoresAccounted
  <2>1. CASE q = p
    <3>1. slot[p] = "empty"
      BY <1>1, <1>2, <1>4 DEF FrameInv, Holds, Running
    <3> QED
      BY <1>2, <2>1, <3>1
  <2>2. CASE q # p
    <3>1. \A g \in Running : frames[g].plugin # q
      BY <1>7, <1>8, <2>2
    <3> QED
      BY <1>1, <1>2, <2>2, <3>1 DEF StoresAccounted
  <2> QED
    BY <2>1, <2>2
<1> QED
  BY <1>10, <1>11, <1>12 DEF CallInv

LEMMA CallStep == ASSUME CallsAssumption, CallInv, [CallsNext]_callVars PROVE CallInv'
<1>1. CallTypes /\ StoresAccounted /\ \A f \in Frame : FrameInv(f)
  BY DEF CallInv
<1>2. ASSUME UNCHANGED <<dependencies, listed, slot, broken, frames>>,
             clock' \in Nat, clock <= clock'
      PROVE  CallInv'
  <2>1. Running' = Running /\ CallTypes' /\ StoresAccounted'
    BY <1>1, <1>2 DEF Running, CallTypes, StoresAccounted
  <2>2. ASSUME NEW f \in Frame PROVE FrameInv(f)'
    <3>1. Placed(f)' /\ Nested(f)' /\ Holds(f)'
      BY <1>1, <1>2, <2>1 DEF FrameInv, Placed, Nested, Holds
    <3>2. frames[f].until \in Nat /\ clock \in Nat
      BY <1>1 DEF CallTypes, Call
    <3>3. Orphaned(f)'
      <4>1. FrameInv(f)
        BY <1>1
      <4>2. frames[f].state = "waiting" => ~frames[f].orphan
        BY <4>1 DEF FrameInv, Orphaned
      <4>3. frames[f].state = "running" /\ frames[f].orphan => frames[f].until <= clock'
        BY <1>2, <3>2, <4>1 DEF FrameInv, Orphaned
      <4> QED
        BY <1>2, <4>2, <4>3 DEF Orphaned
    <3> QED
      BY <3>1, <3>3 DEF FrameInv
  <2> QED
    BY <2>1, <2>2 DEF CallInv
<1>3. CASE UNCHANGED callVars
  BY <1>1, <1>2, <1>3 DEF callVars, CallTypes
<1>4. CASE Tick
  BY <1>1, <1>2, <1>4 DEF Tick, CallTypes
<1> QED
  BY <1>3, <1>4, EntersKept, AcquireKept, EndsKept, ExpireKept DEF CallsNext

------------------------------------------------------------------------------
\* What blocks a call is lower in the order of the dependencies, or has the Store the
\* call waits for: there is a lowest call among any.
LEMMA Least ==
    ASSUME NEW T \in SUBSET Nat, T # {}
    PROVE  \E n \in T : \A m \in T : n <= m
<1>1. PICK n \in T : \A m \in T : <<m, n>> \notin OpToRel(<, Nat)
  BY WFMin, NatLessThanWellFounded, Zenon
<1>2. ASSUME NEW m \in T PROVE n <= m
  <2>1. m \in Nat /\ n \in Nat
    OBVIOUS
  <2>2. ~(m < n)
    BY <1>1, <2>1 DEF OpToRel
  <2> QED
    BY <2>1, <2>2
<1> QED
  BY <1>2

LEMMA Ranked ==
    ASSUME CallsAssumption, CallTypes, Ordered(dependencies)
    PROVE  \E rank \in [Component -> Nat] :
               \A p \in Component : \A q \in dependencies[p] : rank[q] < rank[p]
<1> DEFINE n == Cardinality(Component)
<1>1. PICK order \in [1..n -> Component] :
          /\ \A i, j \in 1..n : i # j => order[i] # order[j]
          /\ \A i, j \in 1..Len(order) : order[j] \in dependencies[order[i]] => j < i
  BY DEF Ordered, SetToSeqs
<1>2. n \in Nat /\ IsFiniteSet(1..n) /\ Cardinality(1..n) = n
  BY FS_CardinalityType, FS_Interval DEF CallsAssumption
<1>3. Len(order) = n
  BY <1>1, <1>2
<1>4. order \in Surjection(1..n, Component)
  <2>1. order \in Injection(1..n, Component)
    BY <1>1 DEF Injection, IsInjective
  <2> QED
    BY <1>2, <2>1, FS_Injection DEF CallsAssumption
<1>5. \A p \in Component : \E i \in 1..n : order[i] = p
  BY <1>4 DEF Surjection
<1> DEFINE rank == [p \in Component |-> CHOOSE i \in 1..n : order[i] = p]
<1>6. \A p \in Component : rank[p] \in 1..n /\ order[rank[p]] = p
  BY <1>5
<1>7. rank \in [Component -> Nat]
  BY <1>2, <1>6
<1> HIDE DEF rank
<1>8. ASSUME NEW p \in Component, NEW q \in dependencies[p] PROVE rank[q] < rank[p]
  <2>1. q \in Component
    BY DEF CallTypes
  <2> QED
    BY <1>1, <1>3, <1>6, <2>1
<1> QED
  BY <1>7, <1>8

LEMMA NoCircle == ASSUME CallsAssumption, CallInv, Ordered(dependencies) PROVE Uncircled
<1>1. CallTypes /\ \A f \in Frame : FrameInv(f)
  BY DEF CallInv
<1>2. PICK rank \in [Component -> Nat] :
          \A p \in Component : \A q \in dependencies[p] : rank[q] < rank[p]
  BY <1>1, Ranked
<1> SUFFICES ASSUME NEW S \in SUBSET Frame, S # {}, \A f \in S : Blocks(f) \cap S # {}
             PROVE  FALSE
  BY DEF Uncircled
<1> DEFINE height(f) == 2 * rank[frames[f].plugin] + (IF f \in Waiting THEN 1 ELSE 0)
<1>3. ASSUME NEW f \in Frame, NEW g \in Calls(f)
      PROVE  /\ g \in Frame /\ frames[f].state = "running" /\ frames[g].state # "free"
             /\ frames[g].plugin \in dependencies[frames[f].plugin]
  BY <1>1 DEF Calls, FrameInv, Nested, CallsAssumption
<1>4. \A f \in S : frames[f].state # "free"
  BY <1>3 DEF Blocks, Waiting
<1>5. \A f \in S : frames[f].plugin \in Component /\ rank[frames[f].plugin] \in Nat
  BY <1>1, <1>4 DEF FrameInv, Placed
<1>6. \A f \in S : height(f) \in Nat
  BY <1>5
<1>7. ASSUME NEW f \in S, NEW g \in Blocks(f) \cap S PROVE height(g) < height(f)
  <2>0. rank[frames[f].plugin] \in Nat /\ rank[frames[g].plugin] \in Nat
    BY <1>5
  <2>1. CASE g \in Calls(f)
    <3>1. f \notin Waiting
      BY <1>3, <2>1 DEF Waiting
    <3>2. rank[frames[g].plugin] < rank[frames[f].plugin]
      BY <1>2, <1>3, <1>5, <2>1
    <3> QED
      BY <2>0, <3>1, <3>2
  <2>2. CASE g \notin Calls(f)
    <3>1. f \in Waiting /\ g \in Running /\ frames[g].plugin = frames[f].plugin
      BY <2>2 DEF Blocks
    <3>2. g \notin Waiting
      BY <3>1 DEF Running, Waiting
    <3> QED
      BY <2>0, <3>1, <3>2
  <2> QED
    BY <2>1, <2>2
<1> HIDE DEF height
<1> DEFINE T == {height(f) : f \in S}
<1>8. T \in SUBSET Nat /\ T # {}
  BY <1>6
<1>9. PICK n \in T : \A m \in T : n <= m
  BY <1>8, Least
<1>10. PICK f \in S : n = height(f)
  OBVIOUS
<1>11. PICK g \in S : g \in Blocks(f)
  OBVIOUS
<1>12. height(g) \in T /\ height(g) < height(f) /\ height(g) \in Nat /\ height(f) \in Nat
  BY <1>6, <1>7, <1>11
<1> QED
  BY <1>9, <1>10, <1>12

\* Calls between plugins whose dependencies have an order never wait in a circle, no Store
\* is lost unnoticed and nothing outlives the window of the call it serves, for any number
\* of plugins and calls and whatever deadlines pass.
THEOREM CallsCorrect == CallsAssumption => (CallsSpec => []CallsSound)
<1>0. SUFFICES ASSUME CallsAssumption PROVE CallsSpec => []CallsSound
  OBVIOUS
<1>1. CallInv => CallsSound
  <2> SUFFICES ASSUME CallInv PROVE CallsSound
    OBVIOUS
  <2>1. StoresAccounted
    BY DEF CallInv
  <2>2. NoOrphanLingers
    BY DEF CallInv, FrameInv, Orphaned, NoOrphanLingers, Running
  <2>3. NoWaitCycle
    BY <1>0, NoCircle DEF NoWaitCycle
  <2> QED
    BY <2>1, <2>2, <2>3 DEF CallsSound
<1>2. CallsInit => CallInv
  BY <1>0, CallInit
<1>3. CallInv /\ [CallsNext]_callVars => CallInv'
  BY <1>0, CallStep
<1> QED
  BY <1>1, <1>2, <1>3, PTL DEF CallsSpec

------------------------------------------------------------------------------
(* teammate-plugin.                                                        *)

(* Its queues are filtered in order, by Among of Filters; the lemmas that *)
(* say so are those of ExtensionProofs, of which nothing else is needed.  *)

\* A place found later in a sequence is a later position of it.
LEMMA PlaceRises ==
    ASSUME NEW n \in Nat, NEW at \in SUBSET (1..n)
    PROVE  /\ IsFiniteSet(at) /\ Cardinality(at) \in Nat
           /\ \A i \in at : Place(at, i) \in 1..Cardinality(at)
           /\ \A i, j \in at : i < j => Place(at, i) < Place(at, j)
<1> DEFINE upto(i) == {j \in at : j <= i}
<1>1. IsFiniteSet(at)
  <2>1. IsFiniteSet(1..n)
    BY FS_Interval
  <2> QED
    BY <2>1, FS_Subset
<1>2. \A i \in at : IsFiniteSet(upto(i)) /\ Cardinality(upto(i)) \in Nat
                    /\ Cardinality(upto(i)) <= Cardinality(at)
  <2> SUFFICES ASSUME NEW i \in at PROVE IsFiniteSet(upto(i)) /\ Cardinality(upto(i)) \in Nat
                    /\ Cardinality(upto(i)) <= Cardinality(at)
    OBVIOUS
  <2>1. upto(i) \in SUBSET at
    OBVIOUS
  <2> HIDE DEF upto
  <2> QED
    BY <1>1, <2>1, FS_Subset, FS_CardinalityType
<1>3. \A i, j \in at : i < j => Cardinality(upto(i)) < Cardinality(upto(j))
  <2> SUFFICES ASSUME NEW i \in at, NEW j \in at, i < j
               PROVE  Cardinality(upto(i)) < Cardinality(upto(j))
    OBVIOUS
  <2>0. i \in Int /\ j \in Int /\ \A k \in at : k <= i => k <= j
    OBVIOUS
  <2>a. ~(j <= i) /\ j <= j
    BY <2>0
  <2>1. upto(i) \in SUBSET upto(j) /\ j \in upto(j) /\ j \notin upto(i)
    BY <2>0, <2>a, Zenon
  <2>2. IsFiniteSet(upto(j)) /\ Cardinality(upto(j)) \in Nat /\ Cardinality(upto(i)) \in Nat
    BY <1>2
  <2> HIDE DEF upto
  <2>3. Cardinality(upto(i)) <= Cardinality(upto(j)) /\ Cardinality(upto(i)) # Cardinality(upto(j))
    BY <2>1, <2>2, FS_Subset
  <2> QED
    BY <2>2, <2>3
<1>4. \A i \in at : Cardinality(upto(i)) >= 1
  <2> SUFFICES ASSUME NEW i \in at PROVE Cardinality(upto(i)) >= 1
    OBVIOUS
  <2>1. i \in upto(i)
    OBVIOUS
  <2>2. IsFiniteSet(upto(i)) /\ Cardinality(upto(i)) \in Nat
    BY <1>2
  <2> HIDE DEF upto
  <2> QED
    BY <2>1, <2>2, FS_EmptySet
<1>5. Cardinality(at) \in Nat
  BY <1>1, FS_CardinalityType
<1> QED
  BY <1>1, <1>2, <1>3, <1>4, <1>5 DEF Place

\* What Among keeps of a sequence keeps its order.
LEMMA AmongInOrder ==
    ASSUME NEW S, NEW s \in Seq(S), NEW at \in SUBSET DOMAIN s
    PROVE  /\ Among(s, at) \in Seq(S) /\ Len(Among(s, at)) = Cardinality(at)
           /\ Cardinality(at) \in Nat /\ DOMAIN Among(s, at) = 1..Cardinality(at)
           /\ \E g \in [1..Cardinality(at) -> at] :
                /\ \A k \in 1..Cardinality(at) : Among(s, at)[k] = s[g[k]]
                /\ \A k, l \in 1..Cardinality(at) : k < l => g[k] < g[l]
                /\ \A i \in at : \E k \in 1..Cardinality(at) : g[k] = i
<1> DEFINE n == Cardinality(at)
           place == [i \in at |-> Place(at, i)]
           g == [k \in 1..n |-> CHOOSE i \in at : Place(at, i) = k]
<1>0. Len(s) \in Nat /\ DOMAIN s = 1..Len(s)
  OBVIOUS
<1>1. /\ IsFiniteSet(at) /\ n \in Nat
      /\ \A i \in at : Place(at, i) \in 1..n
      /\ \A i, j \in at : i < j => Place(at, i) < Place(at, j)
  BY <1>0, PlaceRises
<1>2. \A i, j \in at : Place(at, i) = Place(at, j) => i = j
  BY <1>0, <1>1
<1>3. place \in Injection(at, 1..n)
  BY <1>1, <1>2 DEF Injection, IsInjective
<1>4. IsFiniteSet(1..n) /\ Cardinality(1..n) = n
  BY <1>1, FS_Interval
<1>5. place \in Surjection(at, 1..n)
  <2> HIDE DEF place
  <2> QED
    BY <1>3, <1>4, FS_Injection
<1>6. \A k \in 1..n : \E i \in at : Place(at, i) = k
  BY <1>5 DEF Surjection
<1>7. \A k \in 1..n : g[k] \in at /\ Place(at, g[k]) = k
  BY <1>6
<1>8. g \in [1..n -> at]
  BY <1>7
<1>9. \A i \in at : Place(at, i) \in 1..n /\ g[Place(at, i)] = i
  BY <1>1, <1>2, <1>7
<1>10. \A k, l \in 1..n : k < l => g[k] < g[l]
  <2> SUFFICES ASSUME NEW k \in 1..n, NEW l \in 1..n, k < l, ~(g[k] < g[l]) PROVE FALSE
    OBVIOUS
  <2>1. g[k] \in 1..Len(s) /\ g[l] \in 1..Len(s)
    BY <1>0, <1>7
  <2>2. g[l] < g[k] \/ g[l] = g[k]
    BY <2>1
  <2> HIDE DEF g
  <2> QED
    BY <1>1, <1>7, <2>2
<1>11. DOMAIN Among(s, at) = 1..n /\ \A k \in 1..n : Among(s, at)[k] = s[g[k]]
  BY DEF Among
<1>12. Among(s, at) = [k \in 1..n |-> s[g[k]]]
  BY DEF Among
<1> HIDE DEF g
<1>13. Among(s, at) \in [1..n -> S]
  BY <1>8, <1>12, <1>0
<1>14. Among(s, at) \in Seq(S) /\ Len(Among(s, at)) = n
  BY <1>13, <1>1
<1>15. /\ \A k \in 1..n : Among(s, at)[k] = s[g[k]]
       /\ \A k, l \in 1..n : k < l => g[k] < g[l]
       /\ \A i \in at : \E k \in 1..n : g[k] = i
  BY <1>9, <1>10, <1>11
<1>16. \E h \in [1..n -> at] :
          /\ \A k \in 1..n : Among(s, at)[k] = s[h[k]]
          /\ \A k, l \in 1..n : k < l => h[k] < h[l]
          /\ \A i \in at : \E k \in 1..n : h[k] = i
  BY <1>8, <1>15
<1>17. DOMAIN Among(s, at) = 1..n
  BY <1>11
<1> QED
  BY <1>1, <1>14, <1>16, <1>17

\* Among keeps exactly the elements that are in the set.
LEMMA AmongOf ==
    ASSUME NEW S, NEW s \in Seq(S), NEW at \in SUBSET DOMAIN s
    PROVE  /\ Among(s, at) \in Seq(S)
           /\ \A k \in DOMAIN Among(s, at) : \E i \in at : Among(s, at)[k] = s[i]
           /\ \A i \in at : \E k \in DOMAIN Among(s, at) : Among(s, at)[k] = s[i]
           /\ \A k, l \in DOMAIN Among(s, at) : k # l =>
                 \E i, j \in at : i # j /\ Among(s, at)[k] = s[i] /\ Among(s, at)[l] = s[j]
<1> DEFINE n == Cardinality(at)
<1>1. PICK g \in [1..n -> at] :
        /\ \A k \in 1..n : Among(s, at)[k] = s[g[k]]
        /\ \A k, l \in 1..n : k < l => g[k] < g[l]
        /\ \A i \in at : \E k \in 1..n : g[k] = i
  BY AmongInOrder
<1>2. Among(s, at) \in Seq(S) /\ n \in Nat /\ DOMAIN Among(s, at) = 1..n
  BY AmongInOrder
<1>3. \A k, l \in 1..n : k # l => g[k] # g[l]
  <2>1. \A k \in 1..n : g[k] \in Int
    BY <1>1
  <2>2. \A k, l \in 1..n : k # l => k < l \/ l < k
    BY <1>2
  <2> QED
    BY <1>1, <2>1, <2>2
<1>4. \A k \in DOMAIN Among(s, at) : g[k] \in at /\ Among(s, at)[k] = s[g[k]]
  BY <1>1, <1>2
<1>5. \A i \in at : \E k \in DOMAIN Among(s, at) : Among(s, at)[k] = s[i]
  BY <1>1, <1>2
<1>6. \A k, l \in DOMAIN Among(s, at) : k # l =>
                 \E i, j \in at : i # j /\ Among(s, at)[k] = s[i] /\ Among(s, at)[l] = s[j]
  BY <1>2, <1>3, <1>4
<1> HIDE DEF n
<1> QED
  BY <1>2, <1>4, <1>5, <1>6

\* Teammates and Filters name the same filter.
LEMMA TeamAmong == \A s, at : Team!Among(s, at) = Among(s, at)
<1> TAKE s, at
<1>1. \A S : Team!Cardinality(S) = Cardinality(S)
  BY DEF Team!Cardinality, Cardinality
<1>2. \A i : Team!Place(at, i) = Place(at, i)
  BY <1>1 DEF Team!Place, Place
<1> DEFINE a(k) == CHOOSE i \in at : Team!Place(at, i) = k
           b(k) == CHOOSE i \in at : Place(at, i) = k
<1>3. \A k : a(k) = b(k)
  BY <1>2
<1>4. Team!Among(s, at) = [k \in 1..Cardinality(at) |-> s[a(k)]]
  BY <1>1 DEF Team!Among
<1>5. Among(s, at) = [k \in 1..Cardinality(at) |-> s[b(k)]]
  BY DEF Among
<1> HIDE DEF a, b
<1> QED
  BY <1>3, <1>4, <1>5

\* A queue that is flushed keeps the handles of the agents that go on.
LEMMA FlushedOf ==
    ASSUME NEW q \in Seq(Team!Handle)
    PROVE  /\ Team!Flushed(q) \in Seq(Team!Handle)
           /\ Team!ToSet(Team!Flushed(q)) =
                {h \in Team!ToSet(q) : agents[h] \notin Team!Terminal}
<1> DEFINE at == {i \in DOMAIN q : agents[q[i]] \notin Team!Terminal}
<1>1. Team!Flushed(q) = Among(q, at)
  BY TeamAmong DEF Team!Flushed
<1>2. at \in SUBSET DOMAIN q /\ \A i \in DOMAIN q : i \in at <=> agents[q[i]] \notin Team!Terminal
  OBVIOUS
<1> HIDE DEF at
<1>3. /\ Among(q, at) \in Seq(Team!Handle)
      /\ \A k \in DOMAIN Among(q, at) : \E i \in at : Among(q, at)[k] = q[i]
      /\ \A i \in at : \E k \in DOMAIN Among(q, at) : Among(q, at)[k] = q[i]
  BY <1>2, AmongOf
<1> QED
  BY <1>1, <1>2, <1>3 DEF Team!ToSet

\* A handle that joins the queue is in it, and a full queue lets another go for it.
LEMMA QueuedOf ==
    ASSUME NEW q \in Seq(Team!Handle), NEW h \in Team!Handle
    PROVE  /\ Team!Queued(q, h) \in Seq(Team!Handle)
           /\ h \in Team!ToSet(Team!Queued(q, h))
           /\ Team!ToSet(Team!Queued(q, h)) \subseteq Team!ToSet(q) \cup {h}
<1>1. CASE Len(q) >= MaxPending
  <2>1. Len(q) >= 1
    BY <1>1, TeamConstants
  <2>2. /\ Tail(q) \in Seq(Team!Handle) /\ Len(Tail(q)) = Len(q) - 1
        /\ \A i \in 1..(Len(q) - 1) : Tail(q)[i] = q[i + 1]
    BY <2>1
  <2>3. Team!Queued(q, h) = Append(Tail(q), h)
    BY <1>1 DEF Team!Queued
  <2>4. /\ Append(Tail(q), h) \in Seq(Team!Handle) /\ Len(Append(Tail(q), h)) = Len(q)
        /\ Append(Tail(q), h)[Len(q)] = h
        /\ \A i \in 1..(Len(q) - 1) : Append(Tail(q), h)[i] = q[i + 1]
    BY <2>1, <2>2
  <2> QED
    BY <2>1, <2>3, <2>4 DEF Team!ToSet
<1>2. CASE ~(Len(q) >= MaxPending)
  <2>1. Team!Queued(q, h) = Append(q, h)
    BY <1>2 DEF Team!Queued
  <2>2. /\ Append(q, h) \in Seq(Team!Handle) /\ Len(Append(q, h)) = Len(q) + 1
        /\ Append(q, h)[Len(q) + 1] = h
        /\ \A i \in 1..Len(q) : Append(q, h)[i] = q[i]
    OBVIOUS
  <2> QED
    BY <2>1, <2>2 DEF Team!ToSet
<1> QED
  BY <1>1, <1>2

\* What an agent becomes when the queue is flushed: it begins, is given back, or stays.
LEMMA CollectedOf ==
    ASSUME agents \in [Team!Handle -> Team!Status], NEW q, NEW new \in SUBSET Team!Handle
    PROVE  /\ Team!Collected(q, new) \in [Team!Handle -> Team!Status]
           /\ \A h \in Team!Handle : Team!Collected(q, new)[h] =
                IF h \in new THEN "running"
                ELSE IF h \in Team!ToSet(q) /\ agents[h] \in Team!Terminal THEN "collected"
                     ELSE agents[h]
BY DEF Team!Collected, Team!Status, Team!Terminal

\* A member has the fields of one, and who is no member is nobody's.
LEMMA MemberOf ==
    ASSUME Team!TeamTypes
    PROVE  /\ \A a \in Team!Members : a \in Team!Handle /\ members[a] \in Team!Member
           /\ \A a \in Team!Handle \ Team!Members : members[a] = Team!NoMember
           /\ \A o \in TeamOwner : Team!Mine(o) \subseteq Team!Members
           /\ Team!Mine(Self) \subseteq Team!Members
           /\ Team!Current \subseteq Team!Handle
<1>1. \A a \in Team!Members : a \in Team!Handle /\ members[a] \in Team!Member
  BY DEF Team!TeamTypes, Team!Members, Team!NoMember
<1>2. \A a \in Team!Handle \ Team!Members : members[a] = Team!NoMember
  BY TeamConstants DEF Team!TeamTypes, Team!Members, Team!Member
<1>3. \A o \in TeamOwner : Team!Mine(o) \subseteq Team!Members
  BY TeamConstants DEF Team!Mine, Team!Members
<1>4. Team!Current \subseteq Team!Handle
  BY <1>1 DEF Team!Current, Team!Member
<1> QED
  BY <1>1, <1>2, <1>3, <1>4, TeamConstants

\* A flush of the queue loses no handle: what is given up is in the queue or forgotten, and
\* nothing in the queue is still in use.
LEMMA HandlesFlushed ==
    ASSUME Team!TeamTypes, Team!HandlesAccounted, Team!TeamTypes',
           NEW q \in Seq(Team!Handle), NEW new \in SUBSET Team!Handle,
           collections' = Team!Flushed(q), agents' = Team!Collected(q, new),
           \A h \in new : agents[h] = "none",
           \A h \in Team!ToSet(q) : agents[h] # "none" /\ h \notin Team!Current',
           forgotten \subseteq forgotten',
           Team!ToSet(collections) \subseteq Team!ToSet(q) \cup forgotten',
           Team!Current \subseteq Team!Current' \cup Team!ToSet(q) \cup forgotten',
           new \subseteq Team!Current', Team!Current' \subseteq Team!Current \cup new,
           \A a, b \in Team!Members' : a # b => members'[a].current # members'[b].current
    PROVE  Team!HandlesAccounted'
<1>1. Team!ToSet(collections') = {h \in Team!ToSet(q) : agents[h] \notin Team!Terminal}
  BY FlushedOf
<1>2. \A h \in Team!Handle : agents'[h] =
         IF h \in new THEN "running"
         ELSE IF h \in Team!ToSet(q) /\ agents[h] \in Team!Terminal THEN "collected"
              ELSE agents[h]
  <2>1. agents \in [Team!Handle -> Team!Status]
    BY DEF Team!TeamTypes
  <2> QED
    BY <2>1, CollectedOf
<1>3. \A h \in Team!Handle : agents'[h] \notin {"none", "collected"} =>
         h \in Team!Current' \cup Team!ToSet(collections') \cup forgotten'
  <2> SUFFICES ASSUME NEW h \in Team!Handle, agents'[h] \notin {"none", "collected"}, h \notin new
               PROVE  h \in Team!Current' \cup Team!ToSet(collections') \cup forgotten'
    OBVIOUS
  <2>1. agents'[h] = agents[h] /\ ~(h \in Team!ToSet(q) /\ agents[h] \in Team!Terminal)
    BY <1>2
  <2>2. h \in Team!Current \cup Team!ToSet(collections) \cup forgotten
    BY <2>1 DEF Team!HandlesAccounted
  <2>3. h \in Team!Current' \cup Team!ToSet(q) \cup forgotten'
    BY <2>2
  <2> QED
    BY <1>1, <2>1, <2>3
<1>4. \A h \in Team!Current' : agents'[h] # "collected" /\ h \notin Team!ToSet(collections')
  <2> SUFFICES ASSUME NEW h \in Team!Current'
               PROVE  agents'[h] # "collected" /\ h \notin Team!ToSet(collections')
    OBVIOUS
  <2>1. h \notin Team!ToSet(q)
    OBVIOUS
  <2>2. CASE h \in new
    BY <1>1, <1>2, <2>1, <2>2
  <2>3. CASE h \in Team!Current /\ h \notin new
    <3>1. h \in Team!Handle /\ agents[h] # "collected"
      BY <2>3, MemberOf DEF Team!HandlesAccounted
    <3> QED
      BY <1>1, <1>2, <2>1, <2>3, <3>1
  <2> QED
    BY <2>2, <2>3
<1>5. \A a, b \in Team!Members' : a # b => members'[a].current # members'[b].current
  OBVIOUS
<1> QED
  BY <1>3, <1>4, <1>5 DEF Team!HandlesAccounted

\* The ledger holds entries.
LEMMA RetiredOf ==
    ASSUME Team!TeamTypes
    PROVE  \A i \in DOMAIN retired : retired[i] \in Team!Entries /\ retired[i].address \in Team!Handle
<1>1. \A i \in DOMAIN retired : retired[i] \in Team!Entries
  BY DEF Team!TeamTypes
<1> QED
  BY <1>1 DEF Team!Entries

\* A call that only notes what it saw of a member leaves the team as it is.
LEMMA MembersTouched ==
    ASSUME Team!TeamTypes, Team!RunsRemembered,
           \A a \in Team!Handle \ Team!Members : members'[a] = members[a],
           \A a \in Team!Members :
              /\ members'[a] \in Team!Member
              /\ members'[a].owner = members[a].owner
              /\ members'[a].current = members[a].current
              /\ members'[a].run = members[a].run \/ members'[a].run = controller
    PROVE  /\ \A a \in Team!Handle : members'[a] \in Team!Member \cup {Team!NoMember}
           /\ Team!Members' = Team!Members /\ Team!Current' = Team!Current
           /\ \A a \in Team!Mine(Self)' : members'[a].run \in 1..controller
<1>1. \A a \in Team!Handle : members'[a].owner = members[a].owner
  OBVIOUS
<1>2. Team!Members' = Team!Members /\ Team!Mine(Self)' = Team!Mine(Self)
  BY <1>1 DEF Team!Members, Team!Mine
<1>3. \A a \in Team!Handle : members'[a] \in Team!Member \cup {Team!NoMember}
  BY DEF Team!TeamTypes
<1>4. \A a \in Team!Mine(Self)' : members'[a].run \in 1..controller
  <2>1. controller \in 1..controller
    BY DEF Team!TeamTypes
  <2> QED
    BY <1>2, <2>1, MemberOf DEF Team!RunsRemembered
<1>5. Team!Current' = Team!Current
  BY <1>2 DEF Team!Current
<1> QED
  BY <1>2, <1>3, <1>4, <1>5

\* What a call may note of a member.
LEMMA NotedOf ==
    ASSUME NEW m \in Team!Member, NEW s \in Team!Status, controller \in Nat, NEW o
    PROVE  /\ [m EXCEPT !.status = s] \in Team!Member
           /\ [m EXCEPT !.status = s].owner = m.owner
           /\ [m EXCEPT !.status = s].current = m.current
           /\ [m EXCEPT !.status = s].run = m.run
           /\ Team!Noted(m, o) \in Team!Member
           /\ Team!Noted(m, o).owner = m.owner
           /\ Team!Noted(m, o).current = m.current
           /\ Team!Noted(m, o).run = m.run \/ Team!Noted(m, o).run = controller
BY DEF Team!Member, Team!Noted

\* An agent ends.
LEMMA TeamAgentEnds ==
    ASSUME Team!TeamInv, NEW h \in Team!Handle, Team!AgentEnds(h)
    PROVE  Team!TeamInv'
<1> USE DEF Team!TeamInv
<1>1. PICK s \in Team!Terminal : agents' = [agents EXCEPT ![h] = s]
  BY DEF Team!AgentEnds
<1>2. agents[h] = "running" /\ UNCHANGED <<Team!team, controller, teamAnswered, forgotten>>
  BY DEF Team!AgentEnds
<1> USE <1>2 DEF Team!team
<1>3. \A k \in Team!Handle : /\ agents'[k] \in Team!Status
                             /\ agents'[k] = "none" <=> agents[k] = "none"
                             /\ agents'[k] = "collected" <=> agents[k] = "collected"
  BY <1>1 DEF Team!TeamTypes, Team!Status, Team!Terminal
<1>4. Team!TeamTypes'
  BY <1>1, <1>3 DEF Team!TeamTypes
<1>5. Team!Members' = Team!Members /\ Team!Current' = Team!Current /\ Team!Mine(Self)' = Team!Mine(Self)
  BY DEF Team!Members, Team!Current, Team!Mine
<1>6. Team!HandlesBegun'
  <2>1. \A a \in Team!Members : a \in Team!Handle /\ members[a].current \in Team!Handle
    BY MemberOf DEF Team!Member
  <2>2. \A i \in DOMAIN collections : collections[i] \in Team!Handle
    BY DEF Team!TeamTypes
  <2>3. \A i \in DOMAIN retired : retired[i].address \in Team!Handle
    BY RetiredOf
  <2> QED
    BY <1>3, <1>5, <2>1, <2>2, <2>3 DEF Team!HandlesBegun
<1>7. Team!MailNumbered'
  BY DEF Team!MailNumbered
<1>8. Team!RunsRemembered'
  BY <1>5 DEF Team!RunsRemembered
<1>9. Team!HandlesAccounted'
  BY <1>3, <1>5, MemberOf DEF Team!HandlesAccounted
<1>10. Team!HandedOnce'
  BY <1>5 DEF Team!HandedOnce
<1> QED
  BY <1>4, <1>6, <1>7, <1>8, <1>9, <1>10

\* Nothing else changes than what is known of members.
LEMMA MembersSeen ==
    ASSUME Team!TeamInv, members' \in [Team!Handle -> Team!Member \cup {Team!NoMember}],
           \A a \in Team!Handle \ Team!Members : members'[a] = members[a],
           \A a \in Team!Members :
              /\ members'[a] \in Team!Member
              /\ members'[a].owner = members[a].owner
              /\ members'[a].current = members[a].current
              /\ members'[a].run = members[a].run \/ members'[a].run = controller,
           UNCHANGED <<agents, mailboxes, retired, finishedRuns, collections, messages,
                       controller, teamAnswered, forgotten>>
    PROVE  Team!TeamInv'
<1> USE DEF Team!TeamInv
<1>1. /\ Team!Members' = Team!Members /\ Team!Current' = Team!Current
      /\ \A a \in Team!Mine(Self)' : members'[a].run \in 1..controller
  BY MembersTouched
<1>2. Team!TeamTypes'
  BY DEF Team!TeamTypes
<1>3. Team!HandlesBegun'
  BY <1>1 DEF Team!HandlesBegun
<1>4. Team!MailNumbered'
  BY DEF Team!MailNumbered
<1>5. Team!RunsRemembered'
  BY <1>1 DEF Team!RunsRemembered
<1>6. Team!HandlesAccounted'
  BY <1>1 DEF Team!HandlesAccounted
<1>7. Team!HandedOnce'
  BY <1>1 DEF Team!HandedOnce
<1> QED
  BY <1>2, <1>3, <1>4, <1>5, <1>6, <1>7

\* A view or a tool looks at a member, or asks its agent to stop.
LEMMA MemberNoted ==
    ASSUME Team!TeamInv, NEW o \in TeamOwner, NEW a \in Team!Handle,
           Team!Query(o, a) \/ Team!Cancel(o, a)
    PROVE  Team!TeamInv'
<1> USE DEF Team!TeamInv
<1>1. /\ a \in Team!Mine(o)
      /\ UNCHANGED <<agents, mailboxes, retired, finishedRuns, collections, messages,
                     controller, teamAnswered, forgotten>>
  BY DEF Team!Query, Team!Cancel
<1> USE <1>1
<1>2. a \in Team!Members /\ members[a] \in Team!Member /\ members[a].current \in Team!Handle
  BY MemberOf DEF Team!Member
<1>3. PICK s \in Team!Status :
        members' = [members EXCEPT ![a] = [Team!Noted(members[a], o) EXCEPT !.status = s]]
  <2>1. agents[members[a].current] \in Team!Status
    BY <1>2 DEF Team!TeamTypes
  <2>2. members[a].status \in Team!Status /\ "failed" \in Team!Status
    BY <1>2 DEF Team!Member, Team!Status, Team!Terminal
  <2>4. CASE Team!Query(o, a)
    BY <2>1, <2>4 DEF Team!Query
  <2>5. CASE Team!Cancel(o, a)
    <3> DEFINE m == Team!Noted(members[a], o)
    <3>1. members' = [members EXCEPT ![a] =
             IF agents[m.current] = "running" THEN [m EXCEPT !.status = "failed"] ELSE m]
      BY <2>5 DEF Team!Cancel
    <3>2. m \in Team!Member
      BY <1>2, NotedOf DEF Team!TeamTypes
    <3> HIDE DEF m
    <3>3. CASE agents[m.current] = "running"
      BY <2>2, <3>1, <3>3 DEF m
    <3>4. CASE agents[m.current] # "running"
      <4>1. m = [m EXCEPT !.status = m.status] /\ m.status \in Team!Status
        BY <3>2 DEF Team!Member
      <4> QED
        BY <3>1, <3>4, <4>1 DEF m
    <3> QED
      BY <3>3, <3>4
  <2> QED
    BY <2>4, <2>5
<1>4. /\ members'[a] \in Team!Member
      /\ members'[a].owner = members[a].owner /\ members'[a].current = members[a].current
      /\ members'[a].run = members[a].run \/ members'[a].run = controller
  <2>1. members'[a] = [Team!Noted(members[a], o) EXCEPT !.status = s]
    BY <1>3 DEF Team!TeamTypes
  <2>2. controller \in Nat
    BY DEF Team!TeamTypes
  <2> DEFINE m == Team!Noted(members[a], o)
  <2>3. /\ m \in Team!Member /\ m.owner = members[a].owner /\ m.current = members[a].current
        /\ m.run = members[a].run \/ m.run = controller
    BY <1>2, <2>2, NotedOf
  <2>4. members'[a] = [m EXCEPT !.status = s]
    BY <2>1
  <2> HIDE DEF m
  <2>5. /\ [m EXCEPT !.status = s] \in Team!Member
        /\ [m EXCEPT !.status = s].owner = m.owner
        /\ [m EXCEPT !.status = s].current = m.current
        /\ [m EXCEPT !.status = s].run = m.run
    BY <2>2, <2>3, NotedOf
  <2> QED
    BY <2>3, <2>4, <2>5
<1>5. \A b \in Team!Handle \ {a} : members'[b] = members[b]
  BY <1>3 DEF Team!TeamTypes
<1>6. members' \in [Team!Handle -> Team!Member \cup {Team!NoMember}]
  BY <1>3, <1>4, <1>5 DEF Team!TeamTypes
<1>7. \A b \in Team!Handle \ Team!Members : members'[b] = members[b]
  BY <1>2, <1>5
<1>8. \A b \in Team!Members :
              /\ members'[b] \in Team!Member
              /\ members'[b].owner = members[b].owner
              /\ members'[b].current = members[b].current
              /\ members'[b].run = members[b].run \/ members'[b].run = controller
  BY <1>4, <1>5, MemberOf
<1> QED
  BY <1>6, <1>7, <1>8, MembersSeen

\* A message that is not in its box any more was not in another.
LEMMA MailLeft ==
    ASSUME Team!MailNumbered, Team!HandedOnce,
           \A b \in Team!Handle : \A k \in DOMAIN mailboxes'[b] :
              \E j \in DOMAIN mailboxes[b] : mailboxes'[b][k].id = mailboxes[b][j].id,
           \A b \in Team!Handle : \A k, l \in DOMAIN mailboxes'[b] :
              mailboxes'[b][k].id = mailboxes'[b][l].id => k = l,
           messages' = messages
    PROVE  /\ \A a, b \in Team!Handle : \A i \in DOMAIN mailboxes'[a], j \in DOMAIN mailboxes'[b] :
                mailboxes'[a][i].id = mailboxes'[b][j].id => a = b /\ i = j
           /\ \A a \in Team!Handle : \A i \in DOMAIN mailboxes'[a] : mailboxes'[a][i].id \in 1..messages
           /\ \A h \in Team!Handle : teamAnswered[h] # 0 =>
                 \A a \in Team!Handle : \A i \in DOMAIN mailboxes'[a] :
                    mailboxes'[a][i].id # teamAnswered[h]
<1>1. \A a \in Team!Handle : \A i \in DOMAIN mailboxes'[a] : mailboxes'[a][i].id \in 1..messages
  BY DEF Team!MailNumbered
<1>2. ASSUME NEW a \in Team!Handle, NEW b \in Team!Handle,
             NEW i \in DOMAIN mailboxes'[a], NEW j \in DOMAIN mailboxes'[b],
             mailboxes'[a][i].id = mailboxes'[b][j].id
      PROVE  a = b /\ i = j
  <2>1. PICK m \in DOMAIN mailboxes[a], n \in DOMAIN mailboxes[b] :
          mailboxes'[a][i].id = mailboxes[a][m].id /\ mailboxes'[b][j].id = mailboxes[b][n].id
    OBVIOUS
  <2>2. mailboxes[a][m].id = mailboxes[b][n].id
    BY <1>2, <2>1
  <2>3. a = b
    BY <2>2 DEF Team!MailNumbered
  <2> QED
    BY <1>2, <2>3
<1>3. \A h \in Team!Handle : teamAnswered[h] # 0 =>
                 \A a \in Team!Handle : \A i \in DOMAIN mailboxes'[a] :
                    mailboxes'[a][i].id # teamAnswered[h]
  BY DEF Team!HandedOnce
<1> QED
  BY <1>1, <1>2, <1>3

\* A box that one message left.
LEMMA WithoutOf ==
    ASSUME Team!TeamTypes, Team!MailNumbered, NEW a \in Team!Handle, NEW i
    PROVE  /\ Team!Without(a, i) \in [Team!Handle -> Seq(Team!Mail)]
           /\ \A b \in Team!Handle : \A k \in DOMAIN Team!Without(a, i)[b] :
                \E j \in DOMAIN mailboxes[b] :
                   /\ Team!Without(a, i)[b][k].id = mailboxes[b][j].id
                   /\ b # a \/ j # i
           /\ \A b \in Team!Handle : \A k, l \in DOMAIN Team!Without(a, i)[b] :
                Team!Without(a, i)[b][k].id = Team!Without(a, i)[b][l].id => k = l
<1> DEFINE box == mailboxes[a]
           at == DOMAIN box \ {i}
           rest == Among(box, at)
<1>1. box \in Seq(Team!Mail)
  BY DEF Team!TeamTypes
<1>2. Team!Without(a, i) = [mailboxes EXCEPT ![a] = rest]
  BY TeamAmong DEF Team!Without, Team!WithoutAt
<1>3. at \in SUBSET DOMAIN box /\ i \notin at
  OBVIOUS
<1>4. /\ rest \in Seq(Team!Mail)
      /\ \A k \in DOMAIN rest : \E j \in at : rest[k] = box[j]
      /\ \A k, l \in DOMAIN rest : k # l =>
            \E m, n \in at : m # n /\ rest[k] = box[m] /\ rest[l] = box[n]
  <2> HIDE DEF at, box
  <2> QED
    BY <1>1, <1>3, AmongOf
<1> HIDE DEF at, rest
<1>5. \A k, l \in DOMAIN rest : rest[k].id = rest[l].id => k = l
  BY <1>3, <1>4 DEF Team!MailNumbered
<1>6. /\ Team!Without(a, i)[a] = rest
      /\ \A b \in Team!Handle \ {a} : Team!Without(a, i)[b] = mailboxes[b]
      /\ Team!Without(a, i) \in [Team!Handle -> Seq(Team!Mail)]
  BY <1>2, <1>4 DEF Team!TeamTypes
<1>7. ASSUME NEW b \in Team!Handle, NEW k \in DOMAIN Team!Without(a, i)[b]
      PROVE  \E j \in DOMAIN mailboxes[b] :
                /\ Team!Without(a, i)[b][k].id = mailboxes[b][j].id
                /\ b # a \/ j # i
  <2>1. CASE b = a
    <3>1. PICK j \in at : rest[k] = box[j]
      BY <1>4, <1>6, <1>7, <2>1
    <3> QED
      BY <1>3, <1>6, <2>1, <3>1
  <2>2. CASE b # a
    BY <1>6, <1>7, <2>2
  <2> QED
    BY <2>1, <2>2
<1>8. ASSUME NEW b \in Team!Handle, NEW k \in DOMAIN Team!Without(a, i)[b],
             NEW l \in DOMAIN Team!Without(a, i)[b],
             Team!Without(a, i)[b][k].id = Team!Without(a, i)[b][l].id
      PROVE  k = l
  <2>1. CASE b = a
    BY <1>5, <1>6, <1>8, <2>1
  <2>2. CASE b # a
    BY <1>6, <1>8, <2>2 DEF Team!MailNumbered
  <2> QED
    BY <2>1, <2>2
<1> QED
  BY <1>6, <1>7, <1>8

\* A message is confirmed.
LEMMA MailConfirmed ==
    ASSUME Team!TeamInv, NEW o \in TeamOwner, NEW a \in Team!Handle, NEW i, Team!Ack(o, a, i)
    PROVE  Team!TeamInv'
<1> USE DEF Team!TeamInv
<1>1. /\ mailboxes' = Team!Without(a, i)
      /\ UNCHANGED <<agents, members, retired, finishedRuns, collections, messages,
                     controller, teamAnswered, forgotten>>
  BY DEF Team!Ack
<1> USE <1>1
<1>2. Team!Members' = Team!Members /\ Team!Current' = Team!Current /\ Team!Mine(Self)' = Team!Mine(Self)
  BY DEF Team!Members, Team!Current, Team!Mine
<1>3. Team!TeamTypes'
  BY WithoutOf DEF Team!TeamTypes
<1>4. Team!HandlesBegun'
  BY <1>2 DEF Team!HandlesBegun
<1>5. /\ \A b \in Team!Handle : \A k \in DOMAIN mailboxes'[b] :
            \E j \in DOMAIN mailboxes[b] : mailboxes'[b][k].id = mailboxes[b][j].id
      /\ \A b \in Team!Handle : \A k, l \in DOMAIN mailboxes'[b] :
            mailboxes'[b][k].id = mailboxes'[b][l].id => k = l
  BY WithoutOf
<1>6. Team!MailNumbered'
  BY <1>5, MailLeft DEF Team!MailNumbered
<1>7. Team!RunsRemembered'
  BY <1>2 DEF Team!RunsRemembered
<1>8. Team!HandlesAccounted'
  BY <1>2 DEF Team!HandlesAccounted
<1>9. Team!HandedOnce'
  BY <1>2, <1>5, MailLeft DEF Team!HandedOnce
<1> QED
  BY <1>3, <1>4, <1>6, <1>7, <1>8, <1>9

\* A message is sent: it gets the next number.
LEMMA MailSent ==
    ASSUME Team!TeamInv, NEW o \in TeamOwner, NEW a \in Team!Handle, Team!Send(o, a)
    PROVE  Team!TeamInv'
<1> USE DEF Team!TeamInv
<1> DEFINE mail == [id |-> messages + 1, tries |-> 0]
<1>1. /\ messages' = messages + 1
      /\ mailboxes' = [mailboxes EXCEPT ![a] = Append(mailboxes[a], mail)]
      /\ UNCHANGED <<agents, members, retired, finishedRuns, collections, controller,
                     teamAnswered, forgotten>>
  BY DEF Team!Send
<1> USE <1>1
<1>2. Team!Members' = Team!Members /\ Team!Current' = Team!Current /\ Team!Mine(Self)' = Team!Mine(Self)
  BY DEF Team!Members, Team!Current, Team!Mine
<1>3. mail \in Team!Mail /\ mail.id = messages + 1 /\ messages \in Nat
  BY DEF Team!TeamTypes, Team!Mail
<1> HIDE DEF mail
<1>4. /\ \A b \in Team!Handle \ {a} : mailboxes'[b] = mailboxes[b]
      /\ mailboxes[a] \in Seq(Team!Mail) /\ mailboxes'[a] = Append(mailboxes[a], mail)
      /\ mailboxes' \in [Team!Handle -> Seq(Team!Mail)]
  BY <1>3 DEF Team!TeamTypes
<1>5. /\ DOMAIN mailboxes'[a] = DOMAIN mailboxes[a] \cup {Len(mailboxes[a]) + 1}
      /\ \A i \in DOMAIN mailboxes[a] : mailboxes'[a][i] = mailboxes[a][i]
      /\ mailboxes'[a][Len(mailboxes[a]) + 1] = mail
      /\ Len(mailboxes[a]) + 1 \notin DOMAIN mailboxes[a]
  BY <1>3, <1>4
<1>6. Team!TeamTypes'
  BY <1>3, <1>4 DEF Team!TeamTypes
<1>7. Team!HandlesBegun'
  BY <1>2 DEF Team!HandlesBegun
<1>8. \A b \in Team!Handle : \A i \in DOMAIN mailboxes'[b] :
         \/ i \in DOMAIN mailboxes[b] /\ mailboxes'[b][i] = mailboxes[b][i]
                /\ mailboxes[b][i].id \in 1..messages
         \/ b = a /\ i = Len(mailboxes[a]) + 1 /\ mailboxes'[b][i].id = messages + 1
  BY <1>3, <1>4, <1>5 DEF Team!MailNumbered
<1>9. Team!MailNumbered'
  <2>1. \A b, c \in Team!Handle : \A i \in DOMAIN mailboxes'[b], j \in DOMAIN mailboxes'[c] :
          mailboxes'[b][i].id = mailboxes'[c][j].id => b = c /\ i = j
    BY <1>3, <1>8 DEF Team!MailNumbered
  <2>2. \A b \in Team!Handle : \A i \in DOMAIN mailboxes'[b] : mailboxes'[b][i].id \in 1..messages'
    BY <1>3, <1>8
  <2>3. \A h \in Team!Handle : teamAnswered'[h] <= messages'
    BY <1>3 DEF Team!MailNumbered, Team!TeamTypes
  <2> QED
    BY <2>1, <2>2, <2>3 DEF Team!MailNumbered
<1>10. Team!RunsRemembered'
  BY <1>2 DEF Team!RunsRemembered
<1>11. Team!HandlesAccounted'
  BY <1>2 DEF Team!HandlesAccounted
<1>12. Team!HandedOnce'
  <2>1. \A h \in Team!Handle : teamAnswered[h] \in Nat /\ teamAnswered[h] <= messages
    BY DEF Team!MailNumbered, Team!TeamTypes
  <2> QED
    BY <1>2, <1>3, <1>8, <2>1 DEF Team!HandedOnce
<1> QED
  BY <1>6, <1>7, <1>9, <1>10, <1>11, <1>12

\* A member begins, at a handle that nothing names yet.
LEMMA MemberSpawned ==
    ASSUME Team!TeamInv, NEW o \in TeamOwner, NEW captain \in BOOLEAN, Team!Spawn(o, captain)
    PROVE  Team!TeamInv'
<1> USE DEF Team!TeamInv
<1>1. PICK h \in Team!NewHandles :
         /\ agents' = [agents EXCEPT ![h] = "running"]
         /\ members' = [members EXCEPT ![h] =
               [owner |-> o, captain |-> captain, current |-> h, status |-> "running",
                run |-> IF o = Self THEN controller ELSE 0]]
  BY DEF Team!Spawn
<1>2. UNCHANGED <<mailboxes, retired, finishedRuns, collections, messages, controller,
                  teamAnswered, forgotten>>
  BY DEF Team!Spawn
<1> USE <1>2
<1> DEFINE m == [owner |-> o, captain |-> captain, current |-> h, status |-> "running",
                 run |-> IF o = Self THEN controller ELSE 0]
<1>3. h \in Team!Handle /\ agents[h] = "none"
  BY DEF Team!NewHandles
<1>4. /\ m \in Team!Member /\ m.owner = o /\ m.current = h /\ m.owner # "none"
      /\ o = Self => m.run = controller
  BY <1>3, TeamConstants DEF Team!Member, Team!Status, Team!Terminal, Team!TeamTypes
<1>5. members' = [members EXCEPT ![h] = m]
  BY <1>1
<1> HIDE DEF m
<1>6. members'[h] = m /\ \A a \in Team!Handle \ {h} : members'[a] = members[a]
  BY <1>3, <1>5 DEF Team!TeamTypes
<1>7. agents'[h] = "running" /\ \A a \in Team!Handle \ {h} : agents'[a] = agents[a]
  BY <1>1, <1>3 DEF Team!TeamTypes
<1>8. h \notin Team!Members /\ h \notin Team!Current /\ h \notin Team!ToSet(collections)
  BY <1>3 DEF Team!HandlesBegun, Team!Current, Team!ToSet
<1>9. Team!Members' = Team!Members \cup {h} /\ Team!Members \subseteq Team!Handle
  BY <1>3, <1>4, <1>6 DEF Team!Members
<1>10. \A a \in Team!Members : members'[a] = members[a] /\ members[a] \in Team!Member
  BY <1>6, <1>8, MemberOf
<1>11. Team!Current' = Team!Current \cup {h} /\ Team!Current \subseteq Team!Handle
  BY <1>4, <1>6, <1>9, <1>10, MemberOf DEF Team!Current
<1>12. Team!TeamTypes'
  <2>1. agents' \in [Team!Handle -> Team!Status]
    BY <1>1 DEF Team!TeamTypes, Team!Status, Team!Terminal
  <2>2. members' \in [Team!Handle -> Team!Member \cup {Team!NoMember}]
    BY <1>4, <1>5 DEF Team!TeamTypes
  <2> QED
    BY <2>1, <2>2 DEF Team!TeamTypes
<1>13. Team!HandlesBegun'
  <2>1. \A a \in Team!Members' : agents'[a] # "none" /\ agents'[members'[a].current] # "none"
    <3>1. \A a \in Team!Members : agents'[a] # "none" /\ agents'[members'[a].current] # "none"
      BY <1>7, <1>9, <1>10 DEF Team!HandlesBegun, Team!Member
    <3> QED
      BY <1>4, <1>6, <1>7, <1>9, <3>1
  <2>2. \A i \in DOMAIN collections : agents'[collections[i]] # "none"
    BY <1>7 DEF Team!HandlesBegun, Team!TeamTypes
  <2>3. \A i \in DOMAIN retired : agents'[retired[i].address] # "none"
    BY <1>7, RetiredOf DEF Team!HandlesBegun
  <2> QED
    BY <2>1, <2>2, <2>3 DEF Team!HandlesBegun
<1>14. Team!MailNumbered'
  BY DEF Team!MailNumbered
<1>15. Team!RunsRemembered'
  <2>1. \A a \in Team!Mine(Self)' : members'[a].run \in 1..controller
    <3>1. controller \in 1..controller
      BY DEF Team!TeamTypes
    <3>2. \A a \in Team!Mine(Self)' \ {h} : a \in Team!Mine(Self) /\ members'[a] = members[a]
      BY <1>6 DEF Team!Mine
    <3>3. h \in Team!Mine(Self)' => members'[h].run = controller
      BY <1>4, <1>6 DEF Team!Mine
    <3> QED
      BY <3>1, <3>2, <3>3 DEF Team!RunsRemembered
  <2> QED
    BY <2>1 DEF Team!RunsRemembered
<1>16. Team!HandlesAccounted'
  <2>1. \A k \in Team!Handle : agents'[k] \notin {"none", "collected"} =>
          k \in Team!Current' \cup Team!ToSet(collections') \cup forgotten'
    BY <1>7, <1>11 DEF Team!HandlesAccounted
  <2>2. \A k \in Team!Current' : agents'[k] # "collected" /\ k \notin Team!ToSet(collections')
    BY <1>7, <1>8, <1>11 DEF Team!HandlesAccounted
  <2>3. \A a, b \in Team!Members' : a # b => members'[a].current # members'[b].current
    <3>1. \A a \in Team!Members : members[a].current # h /\ members'[a].current = members[a].current
      BY <1>8, <1>10 DEF Team!Current
    <3>2. members'[h].current = h
      BY <1>4, <1>6
    <3> QED
      BY <1>9, <3>1, <3>2 DEF Team!HandlesAccounted
  <2> QED
    BY <2>1, <2>2, <2>3 DEF Team!HandlesAccounted
<1>17. Team!HandedOnce'
  <2>1. \A i \in DOMAIN retired : retired[i].address # h
    BY <1>3 DEF Team!HandlesBegun
  <2> QED
    BY <1>9, <2>1 DEF Team!HandedOnce
<1> QED
  BY <1>12, <1>13, <1>14, <1>15, <1>16, <1>17

\* A member is dismissed: its handle goes into the queue, its mail is thrown away.
LEMMA MemberDismissed ==
    ASSUME Team!TeamInv, NEW o \in TeamOwner, NEW a \in Team!Mine(o),
           members' = [members EXCEPT ![a] = Team!NoMember],
           mailboxes' = [mailboxes EXCEPT ![a] = <<>>],
           Team!Schedule(members[a].current),
           UNCHANGED <<agents, retired, finishedRuns, messages, controller, teamAnswered>>
    PROVE  Team!TeamInv'
<1> USE DEF Team!TeamInv
<1> DEFINE c == members[a].current
<1>1. a \in Team!Members /\ a \in Team!Handle /\ c \in Team!Handle /\ agents[c] # "none"
  BY MemberOf DEF Team!Member, Team!HandlesBegun
<1>2. /\ collections' \in Seq(Team!Handle) /\ c \in Team!ToSet(collections')
      /\ Team!ToSet(collections') \subseteq Team!ToSet(collections) \cup {c}
      /\ forgotten' = forgotten \cup (Team!ToSet(collections) \ Team!ToSet(collections'))
  <2>1. collections \in Seq(Team!Handle)
    BY DEF Team!TeamTypes
  <2>2. collections' = Team!Queued(collections, c)
    BY DEF Team!Schedule
  <2>3. forgotten' = forgotten \cup (Team!ToSet(collections) \ Team!ToSet(Team!Queued(collections, c)))
    BY DEF Team!Schedule
  <2> HIDE DEF c
  <2> QED
    BY <1>1, <2>1, <2>2, <2>3, QueuedOf
<1>3. Team!ToSet(collections) \subseteq Team!Handle /\ Team!ToSet(collections') \subseteq Team!Handle
  BY <1>2 DEF Team!TeamTypes, Team!ToSet
<1>4. members'[a] = Team!NoMember /\ \A b \in Team!Handle \ {a} : members'[b] = members[b]
  BY <1>1 DEF Team!TeamTypes
<1>5. Team!Members' = Team!Members \ {a} /\ Team!Members \subseteq Team!Handle
  BY <1>1, <1>4 DEF Team!Members, Team!NoMember
<1>6. \A b \in Team!Members' : members'[b] = members[b] /\ members[b] \in Team!Member
  BY <1>4, <1>5, MemberOf
<1>7. /\ Team!Current' \subseteq Team!Current /\ c \notin Team!Current'
      /\ Team!Current \subseteq Team!Current' \cup {c}
  <2>1. \A b \in Team!Members' : members[b].current # c
    BY <1>1, <1>5 DEF Team!HandlesAccounted
  <2>2. Team!Current' = {members[b].current : b \in Team!Members'}
    BY <1>6 DEF Team!Current
  <2> QED
    BY <1>1, <1>5, <2>1, <2>2 DEF Team!Current
<1> HIDE DEF c
<1>8. Team!TeamTypes'
  <2>1. members' \in [Team!Handle -> Team!Member \cup {Team!NoMember}]
    BY DEF Team!TeamTypes
  <2>2. mailboxes' \in [Team!Handle -> Seq(Team!Mail)]
    BY EmptySeq DEF Team!TeamTypes
  <2>3. forgotten' \subseteq Team!Handle
    BY <1>2, <1>3 DEF Team!TeamTypes
  <2> QED
    BY <1>2, <2>1, <2>2, <2>3 DEF Team!TeamTypes
<1>9. Team!HandlesBegun'
  <2>1. \A h \in Team!ToSet(collections') : agents[h] # "none"
    BY <1>1, <1>2 DEF Team!HandlesBegun, Team!ToSet
  <2> QED
    BY <1>5, <1>6, <2>1 DEF Team!HandlesBegun, Team!ToSet
<1>10. \A b \in Team!Handle : mailboxes'[b] = mailboxes[b] \/ mailboxes'[b] = <<>>
  BY DEF Team!TeamTypes
<1>11. /\ \A b \in Team!Handle : \A k \in DOMAIN mailboxes'[b] :
            \E j \in DOMAIN mailboxes[b] : mailboxes'[b][k].id = mailboxes[b][j].id
       /\ \A b \in Team!Handle : \A k, l \in DOMAIN mailboxes'[b] :
            mailboxes'[b][k].id = mailboxes'[b][l].id => k = l
  BY <1>10 DEF Team!MailNumbered
<1>12. Team!MailNumbered'
  BY <1>11, MailLeft DEF Team!MailNumbered
<1>13. Team!RunsRemembered'
  <2>1. \A b \in Team!Mine(Self)' : b \in Team!Mine(Self) /\ members'[b] = members[b]
    BY <1>4, TeamConstants DEF Team!Mine, Team!NoMember
  <2> QED
    BY <2>1 DEF Team!RunsRemembered
<1>14. Team!HandlesAccounted'
  <2>1. \A h \in Team!Handle : agents'[h] \notin {"none", "collected"} =>
          h \in Team!Current' \cup Team!ToSet(collections') \cup forgotten'
    BY <1>2, <1>7 DEF Team!HandlesAccounted
  <2>2. \A h \in Team!Current' : agents'[h] # "collected" /\ h \notin Team!ToSet(collections')
    BY <1>2, <1>7 DEF Team!HandlesAccounted
  <2>3. \A b, d \in Team!Members' : b # d => members'[b].current # members'[d].current
    BY <1>5, <1>6 DEF Team!HandlesAccounted
  <2> QED
    BY <2>1, <2>2, <2>3 DEF Team!HandlesAccounted
<1>15. Team!HandedOnce'
  BY <1>5, <1>11, MailLeft DEF Team!HandedOnce
<1> QED
  BY <1>8, <1>9, <1>12, <1>13, <1>14, <1>15

\* An outcome is taken out of the ledger.
LEMMA OutcomeDismissed ==
    ASSUME Team!TeamInv, NEW i, retired' = Team!WithoutAt(retired, i),
           UNCHANGED <<agents, members, mailboxes, finishedRuns, collections, messages,
                       controller, teamAnswered, forgotten>>
    PROVE  Team!TeamInv'
<1> USE DEF Team!TeamInv
<1>1. Team!Members' = Team!Members /\ Team!Current' = Team!Current /\ Team!Mine(Self)' = Team!Mine(Self)
  BY DEF Team!Members, Team!Current, Team!Mine
<1>2. /\ retired' \in Seq(Team!Entries)
      /\ \A k \in DOMAIN retired' : \E j \in DOMAIN retired : retired'[k] = retired[j]
  <2> DEFINE at == DOMAIN retired \ {i}
  <2>1. retired' = Among(retired, at)
    BY TeamAmong DEF Team!WithoutAt
  <2>2. retired \in Seq(Team!Entries) /\ at \in SUBSET DOMAIN retired
    BY DEF Team!TeamTypes
  <2> HIDE DEF at
  <2>3. /\ Among(retired, at) \in Seq(Team!Entries)
        /\ \A k \in DOMAIN Among(retired, at) : \E j \in at : Among(retired, at)[k] = retired[j]
    BY <2>2, AmongOf
  <2> QED
    BY <2>1, <2>2, <2>3
<1>3. Team!TeamTypes'
  BY <1>2 DEF Team!TeamTypes
<1>4. Team!HandlesBegun'
  BY <1>1, <1>2 DEF Team!HandlesBegun
<1>5. Team!MailNumbered' /\ Team!RunsRemembered' /\ Team!HandlesAccounted'
  BY <1>1 DEF Team!MailNumbered, Team!RunsRemembered, Team!HandlesAccounted
<1>6. Team!HandedOnce'
  BY <1>1, <1>2 DEF Team!HandedOnce
<1> QED
  BY <1>3, <1>4, <1>5, <1>6

\* A member goes on under a new handle: the old one is given back, and nothing else changes
\* hands.
LEMMA MemberContinued ==
    ASSUME Team!TeamInv, NEW a \in Team!Members, NEW n \in Team!NewHandles,
           members' = [members EXCEPT ![a].current = n, ![a].status = "running"],
           Team!Replace(members[a].current, {n}),
           UNCHANGED <<retired, controller>>
    PROVE  /\ members' \in [Team!Handle -> Team!Member \cup {Team!NoMember}]
           /\ agents' \in [Team!Handle -> Team!Status]
           /\ collections' \in Seq(Team!Handle) /\ forgotten' \subseteq Team!Handle
           /\ Team!HandlesBegun'
           /\ \A b \in Team!Mine(Self)' : members'[b].run \in 1..controller
           /\ \A i \in DOMAIN retired : retired[i].address \notin Team!Members'
           /\ Team!TeamTypes' => Team!HandlesAccounted'
<1> USE DEF Team!TeamInv
<1> DEFINE c == members[a].current
           q == Team!Queued(collections, c)
<1>1. a \in Team!Handle /\ members[a] \in Team!Member /\ c \in Team!Handle /\ agents[c] # "none"
  BY MemberOf DEF Team!Member, Team!HandlesBegun
<1>2. n \in Team!Handle /\ agents[n] = "none"
  BY DEF Team!NewHandles
<1>3. /\ members'[a] \in Team!Member /\ members'[a].current = n
      /\ members'[a].owner = members[a].owner /\ members'[a].run = members[a].run
      /\ \A b \in Team!Handle \ {a} : members'[b] = members[b]
      /\ members' \in [Team!Handle -> Team!Member \cup {Team!NoMember}]
  <2> DEFINE m == [members[a] EXCEPT !.current = n, !.status = "running"]
  <2>1. members' = [members EXCEPT ![a] = m]
    BY <1>1 DEF Team!TeamTypes
  <2>2. /\ m \in Team!Member /\ m.current = n /\ m.owner = members[a].owner
        /\ m.run = members[a].run
    BY <1>1, <1>2 DEF Team!Member, Team!Status, Team!Terminal
  <2> HIDE DEF m
  <2>3. members'[a] = m /\ \A b \in Team!Handle \ {a} : members'[b] = members[b]
    BY <1>1, <2>1 DEF Team!TeamTypes
  <2>4. members' \in [Team!Handle -> Team!Member \cup {Team!NoMember}]
    BY <1>1, <2>1, <2>2 DEF Team!TeamTypes
  <2> QED
    BY <2>2, <2>3, <2>4
<1>4. collections \in Seq(Team!Handle) /\ agents \in [Team!Handle -> Team!Status]
  BY DEF Team!TeamTypes
<1>5. /\ q \in Seq(Team!Handle) /\ Team!ToSet(q) \subseteq Team!ToSet(collections) \cup {c}
      /\ c \in Team!ToSet(q)
  <2> HIDE DEF c
  <2> QED
    BY <1>1, <1>4, QueuedOf
<1>6. /\ collections' = Team!Flushed(q) /\ agents' = Team!Collected(q, {n})
      /\ forgotten' = forgotten \cup (Team!ToSet(collections) \ Team!ToSet(q))
  BY DEF Team!Replace
<1> HIDE DEF c, q
<1>7. /\ collections' \in Seq(Team!Handle)
      /\ Team!ToSet(collections') \subseteq Team!ToSet(q)
  BY <1>5, <1>6, FlushedOf
<1>8. /\ agents' \in [Team!Handle -> Team!Status]
      /\ agents'[n] = "running"
      /\ \A h \in Team!Handle : agents[h] # "none" => agents'[h] # "none"
  BY <1>2, <1>4, <1>6, CollectedOf
<1>9. Team!Members' = Team!Members /\ Team!Members \subseteq Team!Handle
  BY <1>1, <1>3 DEF Team!Members
<1>10. forgotten' \subseteq Team!Handle
  <2>1. Team!ToSet(collections) \subseteq Team!Handle
    BY <1>4 DEF Team!ToSet
  <2> QED
    BY <1>6, <2>1 DEF Team!TeamTypes
<1>11. n \notin Team!Current /\ \A h \in Team!ToSet(q) : h \in Team!Handle /\ agents[h] # "none"
  <2>1. \A h \in Team!ToSet(collections) : h \in Team!Handle /\ agents[h] # "none"
    BY <1>4 DEF Team!ToSet, Team!HandlesBegun
  <2> QED
    BY <1>1, <1>2, <1>5, <2>1 DEF Team!HandlesBegun, Team!Current
<1>12. \A b \in Team!Members' \ {a} : /\ members'[b].current = members[b].current
                                      /\ members[b].current # n /\ members[b].current # c
                                      /\ members[b].current \in Team!Handle
  BY <1>3, <1>9, <1>11, MemberOf DEF c, Team!HandlesAccounted, Team!Current, Team!Member
<1>13. /\ Team!Current' \subseteq Team!Current \cup {n} /\ c \notin Team!Current'
       /\ n \in Team!Current'
       /\ Team!Current \subseteq Team!Current' \cup {c}
       /\ \A b, d \in Team!Members' : b # d => members'[b].current # members'[d].current
  <2>1. c # n
    BY <1>1, <1>2 DEF c
  <2>2. \A h \in Team!Current' : h = n \/ \E b \in Team!Members \ {a} : h = members[b].current
    BY <1>3, <1>9, <1>12 DEF Team!Current
  <2>3. \A b \in Team!Members \ {a} : members[b].current \in Team!Current'
    BY <1>9, <1>12 DEF Team!Current
  <2>4. n \in Team!Current'
    BY <1>3, <1>9 DEF Team!Current
  <2>5. Team!Current \subseteq Team!Current' \cup {c}
    BY <2>3 DEF Team!Current, c
  <2>6. \A b, d \in Team!Members' : b # d => members'[b].current # members'[d].current
    BY <1>3, <1>9, <1>12 DEF Team!HandlesAccounted
  <2>7. \A b \in Team!Members : members[b].current \in Team!Current
    BY DEF Team!Current
  <2>8. Team!Current' \subseteq Team!Current \cup {n} /\ c \notin Team!Current'
    BY <1>9, <1>12, <2>1, <2>2, <2>7
  <2> QED
    BY <2>4, <2>5, <2>6, <2>8
<1>14. Team!HandlesBegun'
  <2>1. \A b \in Team!Members' : agents'[b] # "none" /\ agents'[members'[b].current] # "none"
    BY <1>1, <1>3, <1>8, <1>9, <1>12 DEF Team!HandlesBegun
  <2>2. \A h \in Team!ToSet(collections') : agents'[h] # "none"
    BY <1>7, <1>8, <1>11
  <2>3. \A i \in DOMAIN retired : agents'[retired[i].address] # "none"
    BY <1>8, RetiredOf DEF Team!HandlesBegun
  <2> QED
    BY <2>1, <2>2, <2>3 DEF Team!HandlesBegun, Team!ToSet
<1>15. \A b \in Team!Mine(Self)' : members'[b].run \in 1..controller
  <2>1. \A b \in Team!Mine(Self)' : b \in Team!Mine(Self) /\ members'[b].run = members[b].run
    BY <1>3 DEF Team!Mine
  <2> QED
    BY <2>1 DEF Team!RunsRemembered
<1>16. ASSUME Team!TeamTypes' PROVE Team!HandlesAccounted'
  <2>1. Team!ToSet(collections) \subseteq Team!ToSet(q) \cup forgotten'
    BY <1>6
  <2>2. \A h \in Team!ToSet(q) : agents[h] # "none" /\ h \notin Team!Current'
    BY <1>5, <1>11, <1>13, <1>2 DEF Team!HandlesAccounted
  <2>3. {n} \in SUBSET Team!Handle /\ \A h \in {n} : agents[h] = "none"
    BY <1>2
  <2>4. forgotten \subseteq forgotten'
    BY <1>6
  <2> QED
    BY <1>5, <1>6, <1>13, <1>16, <2>1, <2>2, <2>3, <2>4, HandlesFlushed
<1>17. \A i \in DOMAIN retired : retired[i].address \notin Team!Members'
  BY <1>9 DEF Team!HandedOnce
<1> QED
  BY <1>3, <1>7, <1>8, <1>10, <1>14, <1>15, <1>16, <1>17

\* A message goes to a member that is done, which goes on under a new handle with it.
LEMMA MailHanded ==
    ASSUME Team!TeamInv, NEW o \in TeamOwner, NEW a \in Team!Mine(o),
           NEW i \in DOMAIN mailboxes[a], NEW n \in Team!NewHandles,
           mailboxes' = Team!Without(a, i),
           members' = [members EXCEPT ![a].current = n, ![a].status = "running"],
           teamAnswered' = [teamAnswered EXCEPT ![n] = mailboxes[a][i].id],
           Team!Replace(members[a].current, {n}),
           UNCHANGED <<retired, finishedRuns, messages, controller>>
    PROVE  Team!TeamInv'
<1> USE DEF Team!TeamInv
<1> DEFINE id == mailboxes[a][i].id
<1>1. a \in Team!Members /\ a \in Team!Handle /\ n \in Team!Handle
  BY MemberOf DEF Team!NewHandles
<1>2. id \in Nat /\ id \in 1..messages
  <2>1. mailboxes[a][i] \in Team!Mail
    BY <1>1 DEF Team!TeamTypes
  <2> QED
    BY <1>1, <2>1 DEF Team!Mail, Team!MailNumbered
<1>3. teamAnswered'[n] = id /\ \A h \in Team!Handle \ {n} : teamAnswered'[h] = teamAnswered[h]
  BY <1>1 DEF Team!TeamTypes
<1>4. /\ members' \in [Team!Handle -> Team!Member \cup {Team!NoMember}]
      /\ agents' \in [Team!Handle -> Team!Status]
      /\ collections' \in Seq(Team!Handle) /\ forgotten' \subseteq Team!Handle
      /\ Team!HandlesBegun'
      /\ \A b \in Team!Mine(Self)' : members'[b].run \in 1..controller
      /\ \A k \in DOMAIN retired : retired[k].address \notin Team!Members'
      /\ Team!TeamTypes' => Team!HandlesAccounted'
  BY <1>1, MemberContinued
<1>5. /\ mailboxes' \in [Team!Handle -> Seq(Team!Mail)]
      /\ \A b \in Team!Handle : \A k \in DOMAIN mailboxes'[b] :
            \E j \in DOMAIN mailboxes[b] :
               mailboxes'[b][k].id = mailboxes[b][j].id /\ (b # a \/ j # i)
      /\ \A b \in Team!Handle : \A k, l \in DOMAIN mailboxes'[b] :
            mailboxes'[b][k].id = mailboxes'[b][l].id => k = l
  <2> DEFINE rest == Team!Without(a, i)
  <2>1. /\ rest \in [Team!Handle -> Seq(Team!Mail)]
        /\ \A b \in Team!Handle : \A k \in DOMAIN rest[b] :
             \E j \in DOMAIN mailboxes[b] :
                rest[b][k].id = mailboxes[b][j].id /\ (b # a \/ j # i)
        /\ \A b \in Team!Handle : \A k, l \in DOMAIN rest[b] :
             rest[b][k].id = rest[b][l].id => k = l
    BY <1>1, WithoutOf
  <2>2. mailboxes' = rest
    OBVIOUS
  <2> HIDE DEF rest
  <2> QED
    BY <2>1, <2>2
<1> HIDE DEF id
<1>6. Team!TeamTypes'
  <2>1. teamAnswered' \in [Team!Handle -> Nat]
    BY <1>1, <1>2 DEF Team!TeamTypes, id
  <2> QED
    BY <1>4, <1>5, <2>1 DEF Team!TeamTypes
<1>7. /\ \A b, c \in Team!Handle : \A k \in DOMAIN mailboxes'[b], l \in DOMAIN mailboxes'[c] :
            mailboxes'[b][k].id = mailboxes'[c][l].id => b = c /\ k = l
      /\ \A b \in Team!Handle : \A k \in DOMAIN mailboxes'[b] : mailboxes'[b][k].id \in 1..messages
      /\ \A h \in Team!Handle : teamAnswered[h] # 0 =>
            \A b \in Team!Handle : \A k \in DOMAIN mailboxes'[b] :
               mailboxes'[b][k].id # teamAnswered[h]
  <2>1. \A b \in Team!Handle : \A k \in DOMAIN mailboxes'[b] :
           \E j \in DOMAIN mailboxes[b] : mailboxes'[b][k].id = mailboxes[b][j].id
    BY <1>5
  <2> QED
    BY <1>5, <2>1, MailLeft
<1>8. Team!MailNumbered'
  <2>1. \A h \in Team!Handle : teamAnswered'[h] <= messages
    BY <1>2, <1>3 DEF Team!MailNumbered, Team!TeamTypes
  <2> QED
    BY <1>7, <2>1 DEF Team!MailNumbered
<1>9. Team!RunsRemembered'
  BY <1>4 DEF Team!RunsRemembered
<1>10. Team!HandlesAccounted'
  BY <1>4, <1>6
<1>11. \A b \in Team!Handle : \A k \in DOMAIN mailboxes'[b] : mailboxes'[b][k].id # id
  <2> SUFFICES ASSUME NEW b \in Team!Handle, NEW k \in DOMAIN mailboxes'[b] PROVE mailboxes'[b][k].id # id
    OBVIOUS
  <2>1. PICK j \in DOMAIN mailboxes[b] :
          mailboxes'[b][k].id = mailboxes[b][j].id /\ (b # a \/ j # i)
    BY <1>5
  <2>2. mailboxes[b][j].id = mailboxes[a][i].id => b = a /\ j = i
    BY <1>1 DEF Team!MailNumbered
  <2> QED
    BY <2>1, <2>2 DEF id
<1>12. \A h \in Team!Handle \ {n} : teamAnswered[h] # id
  BY <1>1, <1>2 DEF Team!HandedOnce, id
<1>13. Team!HandedOnce'
  <2>1. ASSUME NEW h \in Team!Handle, teamAnswered'[h] # 0
        PROVE  /\ \A k \in Team!Handle \ {h} : teamAnswered'[k] # teamAnswered'[h]
               /\ \A b \in Team!Handle : \A k \in DOMAIN mailboxes'[b] :
                    mailboxes'[b][k].id # teamAnswered'[h]
    <3>1. CASE h = n
      BY <1>3, <1>11, <1>12, <3>1
    <3>2. CASE h # n
      <4>1. teamAnswered'[h] = teamAnswered[h] /\ teamAnswered[h] # id
        BY <1>3, <1>12, <3>2
      <4>2. \A k \in Team!Handle \ {h} : teamAnswered'[k] # teamAnswered'[h]
        BY <1>3, <2>1, <4>1 DEF Team!HandedOnce
      <4> QED
        BY <1>7, <2>1, <4>1, <4>2
    <3> QED
      BY <3>1, <3>2
  <2> QED
    BY <1>4, <2>1 DEF Team!HandedOnce
<1> QED
  BY <1>4, <1>6, <1>8, <1>9, <1>10, <1>13

\* A message that was tried is the same one.
LEMMA TriedOf ==
    ASSUME NEW m \in Team!Mail
    PROVE  [m EXCEPT !.tries = @ + 1] \in Team!Mail /\ [m EXCEPT !.tries = @ + 1].id = m.id
BY DEF Team!Mail

\* An attempt is counted.
LEMMA AttemptCounted ==
    ASSUME Team!TeamInv, NEW a \in Team!Handle, NEW i \in DOMAIN mailboxes[a],
           mailboxes' = [mailboxes EXCEPT ![a][i].tries = @ + 1],
           UNCHANGED <<agents, members, retired, finishedRuns, collections, messages,
                       controller, teamAnswered, forgotten>>
    PROVE  Team!TeamInv'
<1> USE DEF Team!TeamInv
<1> DEFINE m == [mailboxes[a][i] EXCEPT !.tries = @ + 1]
<1>1. mailboxes[a] \in Seq(Team!Mail) /\ mailboxes[a][i] \in Team!Mail
  BY DEF Team!TeamTypes
<1>2. m \in Team!Mail /\ m.id = mailboxes[a][i].id
  BY <1>1, TriedOf
<1>3. mailboxes' = [mailboxes EXCEPT ![a] = [mailboxes[a] EXCEPT ![i] = m]]
  BY <1>1 DEF Team!TeamTypes
<1> HIDE DEF m
<1>4. /\ mailboxes' \in [Team!Handle -> Seq(Team!Mail)]
      /\ \A b \in Team!Handle : /\ DOMAIN mailboxes'[b] = DOMAIN mailboxes[b]
                                /\ \A k \in DOMAIN mailboxes[b] :
                                      mailboxes'[b][k].id = mailboxes[b][k].id
  <2>1. [mailboxes[a] EXCEPT ![i] = m] \in Seq(Team!Mail)
    BY <1>1, <1>2
  <2>2. \A b \in Team!Handle \ {a} : mailboxes'[b] = mailboxes[b]
    BY <1>3 DEF Team!TeamTypes
  <2>3. mailboxes'[a] = [mailboxes[a] EXCEPT ![i] = m]
    BY <1>3 DEF Team!TeamTypes
  <2>4. /\ DOMAIN mailboxes'[a] = DOMAIN mailboxes[a]
        /\ \A k \in DOMAIN mailboxes[a] : mailboxes'[a][k].id = mailboxes[a][k].id
    BY <1>1, <1>2, <2>3
  <2>5. mailboxes' \in [Team!Handle -> Seq(Team!Mail)]
    BY <1>3, <2>1 DEF Team!TeamTypes
  <2> QED
    BY <2>2, <2>4, <2>5
<1>5. Team!Members' = Team!Members /\ Team!Current' = Team!Current /\ Team!Mine(Self)' = Team!Mine(Self)
  BY DEF Team!Members, Team!Current, Team!Mine
<1>6. Team!TeamTypes'
  BY <1>4 DEF Team!TeamTypes
<1>7. /\ \A b \in Team!Handle : \A k \in DOMAIN mailboxes'[b] :
            \E j \in DOMAIN mailboxes[b] : mailboxes'[b][k].id = mailboxes[b][j].id
      /\ \A b \in Team!Handle : \A k, l \in DOMAIN mailboxes'[b] :
            mailboxes'[b][k].id = mailboxes'[b][l].id => k = l
  BY <1>4 DEF Team!MailNumbered
<1>8. Team!MailNumbered'
  BY <1>7, MailLeft DEF Team!MailNumbered
<1>9. Team!HandlesBegun' /\ Team!RunsRemembered' /\ Team!HandlesAccounted'
  BY <1>5 DEF Team!HandlesBegun, Team!RunsRemembered, Team!HandlesAccounted
<1>10. Team!HandedOnce'
  BY <1>5, <1>7, MailLeft DEF Team!HandedOnce
<1> QED
  BY <1>6, <1>8, <1>9, <1>10

\* A message is dispatched, or its dispatch fails.
LEMMA MailDispatched ==
    ASSUME Team!TeamInv, NEW o \in TeamOwner, NEW a \in Team!Handle,
           NEW i \in DOMAIN mailboxes[a], Team!Dispatch(o, a, i)
    PROVE  Team!TeamInv'
<1>1. a \in Team!Mine(o) /\ UNCHANGED <<retired, finishedRuns, messages, controller>>
  BY DEF Team!Dispatch
<1>2. CASE \E n \in Team!NewHandles :
             /\ mailboxes' = Team!Without(a, i)
             /\ members' = [members EXCEPT ![a].current = n, ![a].status = "running"]
             /\ teamAnswered' = [teamAnswered EXCEPT ![n] = mailboxes[a][i].id]
             /\ Team!Replace(members[a].current, {n})
  BY <1>1, <1>2, MailHanded
<1>3. CASE /\ mailboxes' = [mailboxes EXCEPT ![a][i].tries = @ + 1]
           /\ UNCHANGED <<agents, members, teamAnswered, collections, forgotten>>
  BY <1>1, <1>3, AttemptCounted
<1> QED
  BY <1>2, <1>3 DEF Team!Dispatch

\* A view steers a member, or lets one that is done go on.
LEMMA MemberSubmitted ==
    ASSUME Team!TeamInv, NEW a \in Team!Handle, Team!Submit(a)
    PROVE  Team!TeamInv'
<1> USE DEF Team!TeamInv
<1>1. a \in Team!Mine(Self) /\ a \in Team!Members /\ members[a] \in Team!Member
  BY MemberOf DEF Team!Submit
<1>2. UNCHANGED <<mailboxes, retired, finishedRuns, messages, controller, teamAnswered>>
  BY DEF Team!Submit
<1>3. CASE /\ members' = [members EXCEPT ![a].status = "running"]
           /\ UNCHANGED <<agents, collections, forgotten>>
  <2>1. /\ members' = [members EXCEPT ![a] = [members[a] EXCEPT !.status = "running"]]
        /\ controller \in Nat /\ "running" \in Team!Status
    BY <1>1, <1>3 DEF Team!TeamTypes, Team!Status
  <2>2. members'[a] = [members[a] EXCEPT !.status = "running"]
    BY <2>1 DEF Team!TeamTypes
  <2>3. /\ members'[a] \in Team!Member /\ members'[a].owner = members[a].owner
        /\ members'[a].current = members[a].current /\ members'[a].run = members[a].run
    BY <1>1, <2>1, <2>2, NotedOf
  <2>4. \A b \in Team!Handle \ {a} : members'[b] = members[b]
    BY <2>1 DEF Team!TeamTypes
  <2>5. members' \in [Team!Handle -> Team!Member \cup {Team!NoMember}]
    BY <2>1, <2>2, <2>3 DEF Team!TeamTypes
  <2>6. \A b \in Team!Members :
              /\ members'[b] \in Team!Member
              /\ members'[b].owner = members[b].owner
              /\ members'[b].current = members[b].current
              /\ members'[b].run = members[b].run \/ members'[b].run = controller
    BY <2>3, <2>4, MemberOf
  <2>7. \A b \in Team!Handle \ Team!Members : members'[b] = members[b]
    BY <1>1, <2>4
  <2> QED
    BY <1>2, <1>3, <2>5, <2>6, <2>7, MembersSeen
<1>4. CASE \E n \in Team!NewHandles :
             /\ members' = [members EXCEPT ![a].current = n, ![a].status = "running"]
             /\ Team!Replace(members[a].current, {n})
  <2>1. /\ members' \in [Team!Handle -> Team!Member \cup {Team!NoMember}]
        /\ agents' \in [Team!Handle -> Team!Status]
        /\ collections' \in Seq(Team!Handle) /\ forgotten' \subseteq Team!Handle
        /\ Team!HandlesBegun'
        /\ \A b \in Team!Mine(Self)' : members'[b].run \in 1..controller
        /\ \A i \in DOMAIN retired : retired[i].address \notin Team!Members'
        /\ Team!TeamTypes' => Team!HandlesAccounted'
    BY <1>1, <1>2, <1>4, MemberContinued
  <2>2. Team!TeamTypes'
    BY <1>2, <2>1 DEF Team!TeamTypes
  <2>3. Team!MailNumbered' /\ Team!RunsRemembered' /\ Team!HandedOnce'
    BY <1>2, <2>1 DEF Team!MailNumbered, Team!RunsRemembered, Team!HandedOnce
  <2> QED
    BY <2>1, <2>2, <2>3
<1> QED
  BY <1>3, <1>4 DEF Team!Submit

\* The view brings what is known of the members up to date and flushes the queue.
LEMMA TeamRefreshed ==
    ASSUME Team!TeamInv, Team!Refresh
    PROVE  Team!TeamInv'
<1> USE DEF Team!TeamInv
<1>1. /\ collections' = Team!Flushed(collections) /\ agents' = Team!Collected(collections, {})
      /\ members' = [a \in Team!Handle |-> IF a \in Team!Mine(Self)
                        THEN [members[a] EXCEPT !.status = agents[members[a].current]]
                        ELSE members[a]]
      /\ UNCHANGED <<mailboxes, retired, finishedRuns, messages, controller, teamAnswered,
                     forgotten>>
  BY DEF Team!Refresh
<1>2. \A a \in Team!Members :
              /\ members'[a] \in Team!Member
              /\ members'[a].owner = members[a].owner
              /\ members'[a].current = members[a].current
              /\ members'[a].run = members[a].run
  <2> SUFFICES ASSUME NEW a \in Team!Members
               PROVE  /\ members'[a] \in Team!Member
                      /\ members'[a].owner = members[a].owner
                      /\ members'[a].current = members[a].current
                      /\ members'[a].run = members[a].run
    OBVIOUS
  <2>1. /\ a \in Team!Handle /\ members[a] \in Team!Member /\ controller \in Nat
        /\ agents[members[a].current] \in Team!Status
    BY MemberOf DEF Team!TeamTypes, Team!Member
  <2>2. CASE a \in Team!Mine(Self)
    <3>1. members'[a] = [members[a] EXCEPT !.status = agents[members[a].current]]
      BY <1>1, <2>1, <2>2
    <3> QED
      BY <2>1, <3>1, NotedOf
  <2>3. CASE a \notin Team!Mine(Self)
    BY <1>1, <2>1, <2>3
  <2> QED
    BY <2>2, <2>3
<1>3. \A a \in Team!Handle \ Team!Members : members'[a] = members[a]
  BY <1>1, MemberOf
<1>4. /\ \A a \in Team!Handle : members'[a] \in Team!Member \cup {Team!NoMember}
      /\ Team!Members' = Team!Members /\ Team!Current' = Team!Current
      /\ \A a \in Team!Mine(Self)' : members'[a].run \in 1..controller
  BY <1>2, <1>3, MembersTouched
<1>5. collections \in Seq(Team!Handle) /\ agents \in [Team!Handle -> Team!Status]
  BY DEF Team!TeamTypes
<1>6. /\ collections' \in Seq(Team!Handle)
      /\ Team!ToSet(collections') \subseteq Team!ToSet(collections)
  BY <1>1, <1>5, FlushedOf
<1>7. /\ agents' \in [Team!Handle -> Team!Status]
      /\ \A h \in Team!Handle : agents[h] # "none" => agents'[h] # "none"
  BY <1>1, <1>5, CollectedOf
<1>8. Team!TeamTypes'
  <2>1. members' \in [Team!Handle -> Team!Member \cup {Team!NoMember}]
    BY <1>1, <1>4
  <2> QED
    BY <1>1, <1>6, <1>7, <2>1 DEF Team!TeamTypes
<1>9. \A h \in Team!ToSet(collections) : h \in Team!Handle /\ agents[h] # "none"
  BY <1>5 DEF Team!ToSet, Team!HandlesBegun
<1>10. Team!HandlesBegun'
  <2>1. \A a \in Team!Members' : agents'[a] # "none" /\ agents'[members'[a].current] # "none"
    BY <1>2, <1>4, <1>7, MemberOf DEF Team!HandlesBegun, Team!Member
  <2>2. \A i \in DOMAIN collections' : agents'[collections'[i]] # "none"
    BY <1>6, <1>7, <1>9 DEF Team!ToSet
  <2>3. \A i \in DOMAIN retired' : agents'[retired'[i].address] # "none"
    BY <1>1, <1>7, RetiredOf DEF Team!HandlesBegun
  <2> QED
    BY <2>1, <2>2, <2>3 DEF Team!HandlesBegun
<1>11. Team!MailNumbered'
  BY <1>1 DEF Team!MailNumbered
<1>12. Team!RunsRemembered'
  BY <1>1, <1>4 DEF Team!RunsRemembered
<1>13. Team!HandlesAccounted'
  <2>1. \A h \in Team!ToSet(collections) : agents[h] # "none" /\ h \notin Team!Current'
    BY <1>4, <1>9 DEF Team!HandlesAccounted
  <2>2. \A a, b \in Team!Members' : a # b => members'[a].current # members'[b].current
    BY <1>2, <1>4 DEF Team!HandlesAccounted
  <2> QED
    BY <1>1, <1>4, <1>5, <1>8, <2>1, <2>2, HandlesFlushed
<1>14. Team!HandedOnce'
  BY <1>1, <1>4 DEF Team!HandedOnce
<1> QED
  BY <1>8, <1>10, <1>11, <1>12, <1>13, <1>14

\* The newest of a sequence are some of it, and those at its end.
LEMMA NewestOf ==
    ASSUME NEW S, NEW s \in Seq(S), NEW n \in Nat
    PROVE  /\ Team!Newest(s, n) \in Seq(S)
           /\ \A k \in DOMAIN Team!Newest(s, n) : \E j \in DOMAIN s : Team!Newest(s, n)[k] = s[j]
           /\ \A j \in DOMAIN s : j > Len(s) - n =>
                 \E k \in DOMAIN Team!Newest(s, n) : Team!Newest(s, n)[k] = s[j]
<1> DEFINE first == IF Len(s) > n THEN Len(s) - n + 1 ELSE 1
           t == SubSeq(s, first, Len(s))
<1>1. Len(s) \in Nat /\ DOMAIN s = 1..Len(s) /\ \A i \in 1..Len(s) : s[i] \in S
  OBVIOUS
<1>2. first \in 1..(Len(s) + 1)
  BY <1>1
<1>5. Team!Newest(s, n) = t
  BY DEF Team!Newest
<1>6. \A j \in 1..Len(s) : j > Len(s) - n => first <= j
  BY <1>1
<1> HIDE DEF first
<1>3. t \in Seq(S) /\ Len(t) = Len(s) - first + 1 /\ DOMAIN t = 1..(Len(s) - first + 1)
  BY <1>1, <1>2
<1>4. \A k \in 1..(Len(s) - first + 1) : t[k] = s[first + k - 1]
  BY <1>1, <1>2
<1> HIDE DEF t
<1>7. \A k \in DOMAIN t : first + k - 1 \in DOMAIN s /\ t[k] = s[first + k - 1]
  BY <1>1, <1>2, <1>3, <1>4
<1>8. ASSUME NEW j \in DOMAIN s, j > Len(s) - n PROVE \E k \in DOMAIN t : t[k] = s[j]
  <2>1. j \in 1..Len(s) /\ first <= j
    BY <1>1, <1>6, <1>8
  <2>2. j - first + 1 \in 1..(Len(s) - first + 1) /\ first + (j - first + 1) - 1 = j
    BY <1>1, <1>2, <2>1
  <2>3. j - first + 1 \in DOMAIN t /\ t[j - first + 1] = s[j]
    BY <1>3, <1>4, <2>2
  <2> QED
    BY <2>3
<1> QED
  BY <1>3, <1>5, <1>7, <1>8

\* The oldest of some runs in their order goes.
LEMMA OldestRunGoes ==
    ASSUME NEW s \in Seq(Nat), NEW c \in Nat, NEW m \in Nat \ {0}, Len(s) = m,
           \A i \in 1..m : s[i] + m + 1 = c + i
    PROVE  /\ Tail(s) \in Seq(Nat) /\ Len(Tail(s)) = m - 1
           /\ \A i \in 1..(m - 1) : Tail(s)[i] + m = c + i
<1>1. /\ Tail(s) \in Seq(Nat) /\ Len(Tail(s)) = m - 1
      /\ \A i \in 1..(m - 1) : Tail(s)[i] = s[i + 1]
  OBVIOUS
<1>2. ASSUME NEW i \in 1..(m - 1) PROVE Tail(s)[i] + m = c + i
  <2>1. i \in Nat /\ i + 1 \in 1..m
    OBVIOUS
  <2>2. PICK x \in Nat : x = s[i + 1]
    BY <2>1
  <2>3. x + m + 1 = c + (i + 1)
    BY <2>1, <2>2
  <2>4. x + m = c + i
    BY <2>1, <2>3
  <2> QED
    BY <1>1, <2>2, <2>4
<1> QED
  BY <1>1, <1>2

\* The runs that are remembered when one more ends: the last ones, and this one.
LEMMA RememberedOf ==
    ASSUME Team!TeamTypes, Team!RunsRemembered
    PROVE  /\ Team!Remembered \in Seq(Nat)
           /\ Len(Team!Remembered) = IF controller < MaxFinished THEN controller ELSE MaxFinished
           /\ \A i \in DOMAIN Team!Remembered :
                Team!Remembered[i] + Len(Team!Remembered) = controller + i
           /\ \A r \in 1..controller : r + MaxFinished > controller => r \in Team!ToSet(Team!Remembered)
<1> DEFINE R == Team!Remembered
           kept == IF Len(finishedRuns) >= MaxFinished THEN Tail(finishedRuns) ELSE finishedRuns
<1>1. /\ finishedRuns \in Seq(Nat) /\ controller \in Nat /\ controller >= 1
      /\ MaxFinished \in Nat /\ MaxFinished >= 1
      /\ Len(finishedRuns) \in Nat /\ DOMAIN finishedRuns = 1..Len(finishedRuns)
  BY TeamConstants DEF Team!TeamTypes
<1>2. /\ Len(finishedRuns) = IF controller <= MaxFinished THEN controller - 1 ELSE MaxFinished
      /\ \A i \in DOMAIN finishedRuns :
            finishedRuns[i] \in Nat /\ finishedRuns[i] + Len(finishedRuns) + 1 = controller + i
  BY <1>1 DEF Team!RunsRemembered
<1>a. kept = IF Len(finishedRuns) >= MaxFinished THEN Tail(finishedRuns) ELSE finishedRuns
  OBVIOUS
<1>4. R = Append(kept, controller)
  BY DEF Team!Remembered
<1> HIDE DEF kept, R
<1>3. /\ kept \in Seq(Nat)
      /\ Len(kept) + 1 = IF controller < MaxFinished THEN controller ELSE MaxFinished
      /\ \A i \in 1..Len(kept) : kept[i] + Len(kept) + 1 = controller + i
  <2>1. CASE Len(finishedRuns) >= MaxFinished
    <3>1. kept = Tail(finishedRuns) /\ Len(finishedRuns) = MaxFinished /\ controller > MaxFinished
      BY <1>a, <1>1, <1>2, <2>1
    <3>a. \A i \in 1..Len(finishedRuns) :
             finishedRuns[i] + Len(finishedRuns) + 1 = controller + i
      BY <1>1, <1>2
    <3>b. \A i \in 1..MaxFinished : finishedRuns[i] + MaxFinished + 1 = controller + i
      BY <3>1, <3>a, Zenon
    <3>2. finishedRuns \in Seq(Nat) /\ MaxFinished \in Nat \ {0}
      BY <1>1
    <3>3. /\ kept \in Seq(Nat) /\ Len(kept) = MaxFinished - 1
          /\ \A i \in 1..(MaxFinished - 1) : kept[i] + MaxFinished = controller + i
      BY <1>1, <3>1, <3>b, <3>2, OldestRunGoes
    <3>4. Len(kept) + 1 = MaxFinished
      BY <1>1, <3>3
    <3> QED
      BY <1>1, <3>1, <3>3, <3>4
  <2>2. CASE ~(Len(finishedRuns) >= MaxFinished)
    <3>1. kept = finishedRuns /\ Len(finishedRuns) = controller - 1 /\ controller <= MaxFinished
      BY <1>a, <1>1, <1>2, <2>2
    <3>a. \A i \in 1..Len(finishedRuns) :
             finishedRuns[i] + Len(finishedRuns) + 1 = controller + i
      BY <1>1, <1>2
    <3>2. \A i \in 1..Len(kept) : kept[i] + Len(kept) + 1 = controller + i
      BY <3>a, <3>1, Zenon
    <3> QED
      BY <1>1, <3>1, <3>2
  <2> QED
    BY <2>1, <2>2
<1>5. /\ R \in Seq(Nat) /\ Len(R) = Len(kept) + 1 /\ DOMAIN R = 1..Len(R)
      /\ \A i \in 1..Len(kept) : R[i] = kept[i]
      /\ R[Len(kept) + 1] = controller /\ Len(kept) \in Nat
  BY <1>1, <1>3, <1>4
<1>6. \A i \in DOMAIN R : R[i] + Len(R) = controller + i
  <2> SUFFICES ASSUME NEW i \in 1..Len(R) PROVE R[i] + Len(R) = controller + i
    BY <1>5
  <2>1. CASE i = Len(kept) + 1
    BY <1>1, <1>5, <2>1
  <2>2. CASE i # Len(kept) + 1
    <3>1. i \in 1..Len(kept)
      BY <1>5, <2>2
    <3>2. R[i] = kept[i] /\ kept[i] \in Nat /\ kept[i] + Len(kept) + 1 = controller + i
      BY <1>3, <1>5, <3>1
    <3>3. R[i] \in Nat /\ R[i] + Len(kept) + 1 = controller + i /\ Len(R) = Len(kept) + 1
      BY <1>5, <3>2
    <3> QED
      BY <1>1, <1>5, <3>3
  <2> QED
    BY <2>1, <2>2
<1>7. ASSUME NEW r \in 1..controller, r + MaxFinished > controller PROVE r \in Team!ToSet(R)
  <2>1. /\ r - controller + Len(R) \in 1..Len(R) /\ Len(R) \in Nat
    BY <1>1, <1>3, <1>5, <1>7
  <2>2. R[r - controller + Len(R)] \in Nat
    BY <1>5, <2>1
  <2>3. R[r - controller + Len(R)] + Len(R) = controller + (r - controller + Len(R))
    BY <1>5, <1>6, <2>1
  <2>4. R[r - controller + Len(R)] = r
    BY <1>1, <2>1, <2>2, <2>3
  <2> QED
    BY <1>5, <2>1, <2>4 DEF Team!ToSet
<1>8. Len(R) = IF controller < MaxFinished THEN controller ELSE MaxFinished
  BY <1>3, <1>5
<1> QED
  BY <1>5, <1>6, <1>7, <1>8 DEF R

\* The members that leave at the end of a run, in the order of their addresses.
Gone == Among([h \in Team!Handle |-> h], Team!Candidates)

\* They are those that are done, each once.
LEMMA GoneOf ==
    /\ Team!Among([h \in Team!Handle |-> h], Team!Candidates) = Gone
    /\ Team!Candidates \in SUBSET Team!Handle
    /\ Gone \in Seq(Team!Handle) /\ Len(Gone) = Team!Cardinality(Team!Candidates)
    /\ \A k \in DOMAIN Gone : Gone[k] \in Team!Candidates
    /\ \A a \in Team!Candidates : \E k \in DOMAIN Gone : Gone[k] = a
<1> DEFINE s == [h \in Team!Handle |-> h]
<1>1. Team!Among(s, Team!Candidates) = Gone
  BY TeamAmong DEF Gone
<1>2. Team!Candidates \in SUBSET Team!Handle
  BY DEF Team!Candidates, Team!Mine
<1>3. s \in Seq(Team!Handle) /\ DOMAIN s = Team!Handle /\ \A h \in Team!Handle : s[h] = h
  <2>1. MaxHandles \in Nat
    BY TeamConstants
  <2>2. s \in [1..MaxHandles -> Team!Handle]
    BY DEF Team!Handle
  <2> QED
    BY <2>1, <2>2
<1> HIDE DEF s
<1>4. /\ Among(s, Team!Candidates) \in Seq(Team!Handle)
      /\ Len(Among(s, Team!Candidates)) = Cardinality(Team!Candidates)
      /\ \A k \in DOMAIN Among(s, Team!Candidates) :
            \E i \in Team!Candidates : Among(s, Team!Candidates)[k] = s[i]
      /\ \A i \in Team!Candidates :
            \E k \in DOMAIN Among(s, Team!Candidates) : Among(s, Team!Candidates)[k] = s[i]
  BY <1>2, <1>3, AmongOf, AmongInOrder
<1>5. Gone = Among(s, Team!Candidates)
  BY DEF Gone, s
<1>6. Team!Cardinality(Team!Candidates) = Cardinality(Team!Candidates)
  BY DEF Team!Cardinality, Cardinality
<1>7. /\ \A k \in DOMAIN Gone : Gone[k] \in Team!Candidates
      /\ \A a \in Team!Candidates : \E k \in DOMAIN Gone : Gone[k] = a
  BY <1>2, <1>3, <1>4, <1>5
<1>8. Gone \in Seq(Team!Handle) /\ Len(Gone) = Team!Cardinality(Team!Candidates)
  BY <1>4, <1>5, <1>6
<1>9. Team!Among([h \in Team!Handle |-> h], Team!Candidates) = Gone
  BY <1>1 DEF s
<1> QED
  BY <1>2, <1>7, <1>8, <1>9

\* What goes into the queue at the end of a run, and what the queue has room for.
AllOf == collections \o [i \in DOMAIN Gone |-> members[Gone[i]].current]
QueueOf == Team!Newest(AllOf, MaxPending)
EntriesOf == [i \in DOMAIN Gone |-> Team!Entry(Gone[i])]

\* The end of a run, told of these.
LEMMA FinishOf ==
    ASSUME Team!RunFinish
    PROVE  /\ controller' = controller + 1 /\ finishedRuns' = Team!Remembered
           /\ members' = [a \in Team!Handle |->
                IF a \in Team!Candidates THEN Team!NoMember
                ELSE IF a \in Team!Mine(Self)
                     THEN [members[a] EXCEPT !.status = agents[members[a].current]]
                     ELSE members[a]]
           /\ retired' = Team!Newest(retired \o EntriesOf, MaxRetired)
           /\ mailboxes' = [a \in Team!Handle |->
                IF a \in Team!Candidates THEN <<>> ELSE mailboxes[a]]
           /\ collections' = Team!Flushed(QueueOf) /\ agents' = Team!Collected(QueueOf, {})
           /\ forgotten' = forgotten \cup (Team!ToSet(AllOf) \ Team!ToSet(QueueOf))
           /\ UNCHANGED <<messages, teamAnswered>>
<1>1. Team!Among([h \in Team!Handle |-> h], Team!Candidates) = Gone
  BY GoneOf
<1> QED
  BY <1>1 DEF Team!RunFinish, AllOf, QueueOf, EntriesOf

\* Who leaves is a member of the plugin's own team that is done, with nothing to read.
LEMMA CandidateOf ==
    ASSUME Team!TeamTypes, NEW a \in Team!Candidates
    PROVE  /\ a \in Team!Handle /\ a \in Team!Members /\ members[a] \in Team!Member
           /\ members[a].current \in Team!Handle /\ members[a].owner = Self
           /\ agents[members[a].current] \in Team!Terminal /\ mailboxes[a] = <<>>
           /\ Team!Entry(a) \in Team!Entries /\ Team!Entry(a).address = a
<1>1. a \in Team!Mine(Self) /\ agents[members[a].current] \in Team!Terminal /\ mailboxes[a] = <<>>
  BY DEF Team!Candidates, Team!Retirable, Team!Unread
<1>2. a \in Team!Handle /\ a \in Team!Members /\ members[a] \in Team!Member
  BY <1>1, MemberOf
<1>3. members[a].current \in Team!Handle /\ members[a].owner = Self
  BY <1>1, <1>2 DEF Team!Member, Team!Mine
<1>4. agents[members[a].current] \in Team!Status
  BY <1>3 DEF Team!TeamTypes
<1>5. Team!Entry(a) \in Team!Entries /\ Team!Entry(a).address = a
  BY <1>2, <1>4, TeamConstants DEF Team!Entry, Team!Entries
<1> QED
  BY <1>1, <1>2, <1>3, <1>5

\* The queue at the end of a run.
LEMMA QueueAtFinish ==
    ASSUME Team!TeamTypes
    PROVE  /\ AllOf \in Seq(Team!Handle) /\ QueueOf \in Seq(Team!Handle)
           /\ Team!ToSet(AllOf) = Team!ToSet(collections)
                                  \cup {members[a].current : a \in Team!Candidates}
           /\ Team!ToSet(QueueOf) \subseteq Team!ToSet(AllOf)
<1> DEFINE left == [i \in DOMAIN Gone |-> members[Gone[i]].current]
<1>1. /\ Gone \in Seq(Team!Handle)
      /\ \A k \in DOMAIN Gone : Gone[k] \in Team!Candidates
      /\ \A a \in Team!Candidates : \E k \in DOMAIN Gone : Gone[k] = a
  BY GoneOf
<1>2. \A k \in DOMAIN Gone : members[Gone[k]].current \in Team!Handle
  BY <1>1, CandidateOf
<1>3. /\ left \in Seq(Team!Handle) /\ DOMAIN left = DOMAIN Gone
      /\ \A k \in DOMAIN Gone : left[k] = members[Gone[k]].current
  BY <1>1, <1>2
<1> HIDE DEF left
<1>4. collections \in Seq(Team!Handle)
  BY DEF Team!TeamTypes
<1>5. AllOf = collections \o left
  BY DEF AllOf, left
<1>6. AllOf \in Seq(Team!Handle)
  BY <1>3, <1>4, <1>5
<1>7. Team!ToSet(AllOf) = Team!ToSet(collections) \cup Team!ToSet(left)
  <2>1. /\ Len(AllOf) = Len(collections) + Len(left)
        /\ \A i \in 1..Len(collections) : AllOf[i] = collections[i]
        /\ \A i \in 1..Len(left) : AllOf[Len(collections) + i] = left[i]
        /\ Len(collections) \in Nat /\ Len(left) \in Nat
        /\ DOMAIN AllOf = 1..(Len(collections) + Len(left))
        /\ DOMAIN collections = 1..Len(collections) /\ DOMAIN left = 1..Len(left)
    BY <1>3, <1>4, <1>5
  <2>2. \A i \in DOMAIN AllOf : i \in 1..Len(collections) \/
           \E j \in 1..Len(left) : i = Len(collections) + j
    <3> SUFFICES ASSUME NEW i \in DOMAIN AllOf, i \notin 1..Len(collections)
                 PROVE  \E j \in 1..Len(left) : i = Len(collections) + j
      OBVIOUS
    <3>1. i - Len(collections) \in 1..Len(left) /\ i = Len(collections) + (i - Len(collections))
      BY <2>1
    <3> QED
      BY <3>1
  <2>3. \A j \in 1..Len(left) : Len(collections) + j \in DOMAIN AllOf
    BY <2>1
  <2>4. \A i \in 1..Len(collections) : i \in DOMAIN AllOf
    BY <2>1
  <2>5. \A i \in DOMAIN AllOf : AllOf[i] \in Team!ToSet(collections) \cup Team!ToSet(left)
    <3>1. /\ \A i \in 1..Len(collections) : collections[i] \in Team!ToSet(collections)
          /\ \A j \in 1..Len(left) : left[j] \in Team!ToSet(left)
      BY <2>1 DEF Team!ToSet
    <3> QED
      BY <2>1, <2>2, <3>1
  <2>6. /\ \A i \in 1..Len(collections) : collections[i] \in Team!ToSet(AllOf)
        /\ \A j \in 1..Len(left) : left[j] \in Team!ToSet(AllOf)
    <3>1. \A i \in DOMAIN AllOf : AllOf[i] \in Team!ToSet(AllOf)
      BY DEF Team!ToSet
    <3>2. \A i \in 1..Len(collections) : collections[i] \in Team!ToSet(AllOf)
      BY <2>1, <2>4, <3>1
    <3>3. \A j \in 1..Len(left) : left[j] \in Team!ToSet(AllOf)
      BY <2>1, <2>3, <3>1
    <3> QED
      BY <3>2, <3>3
  <2> QED
    BY <2>1, <2>5, <2>6 DEF Team!ToSet
<1>8. Team!ToSet(left) = {members[a].current : a \in Team!Candidates}
  BY <1>1, <1>3 DEF Team!ToSet
<1>9. /\ QueueOf \in Seq(Team!Handle)
      /\ \A k \in DOMAIN QueueOf : \E j \in DOMAIN AllOf : QueueOf[k] = AllOf[j]
  BY <1>6, NewestOf, TeamConstants DEF QueueOf
<1>10. Team!ToSet(QueueOf) \subseteq Team!ToSet(AllOf)
  BY <1>9 DEF Team!ToSet
<1> QED
  BY <1>6, <1>7, <1>8, <1>9, <1>10

\* The ledger at the end of a run.
LEMMA LedgerAtFinish ==
    ASSUME Team!TeamTypes, retired' = Team!Newest(retired \o EntriesOf, MaxRetired)
    PROVE  /\ retired' \in Seq(Team!Entries)
           /\ \A k \in DOMAIN retired' : \/ \E j \in DOMAIN retired : retired'[k] = retired[j]
                                         \/ \E a \in Team!Candidates : retired'[k] = Team!Entry(a)
           /\ Team!Cardinality(Team!Candidates) <= MaxRetired =>
                 \A a \in Team!Candidates : \E k \in DOMAIN retired' : retired'[k] = Team!Entry(a)
<1> DEFINE s == retired \o EntriesOf
<1>1. /\ Gone \in Seq(Team!Handle) /\ Len(Gone) = Team!Cardinality(Team!Candidates)
      /\ \A k \in DOMAIN Gone : Gone[k] \in Team!Candidates
      /\ \A a \in Team!Candidates : \E k \in DOMAIN Gone : Gone[k] = a
  BY GoneOf
<1>2. \A k \in DOMAIN Gone : Team!Entry(Gone[k]) \in Team!Entries
  BY <1>1, CandidateOf
<1>3. /\ EntriesOf \in Seq(Team!Entries) /\ DOMAIN EntriesOf = DOMAIN Gone
      /\ Len(EntriesOf) = Len(Gone)
      /\ \A k \in DOMAIN Gone : EntriesOf[k] = Team!Entry(Gone[k])
  BY <1>1, <1>2 DEF EntriesOf
<1>4. retired \in Seq(Team!Entries) /\ MaxRetired \in Nat
  BY TeamConstants DEF Team!TeamTypes
<1>5. s \in Seq(Team!Entries)
  BY <1>3, <1>4
<1>6. /\ Len(s) = Len(retired) + Len(EntriesOf)
      /\ \A i \in 1..Len(retired) : s[i] = retired[i]
      /\ \A i \in 1..Len(EntriesOf) : s[Len(retired) + i] = EntriesOf[i]
      /\ Len(retired) \in Nat /\ Len(EntriesOf) \in Nat
      /\ DOMAIN s = 1..(Len(retired) + Len(EntriesOf))
      /\ DOMAIN retired = 1..Len(retired) /\ DOMAIN EntriesOf = 1..Len(EntriesOf)
  BY <1>3, <1>4
<1> HIDE DEF s
<1>7. /\ retired' \in Seq(Team!Entries)
      /\ \A k \in DOMAIN retired' : \E j \in DOMAIN s : retired'[k] = s[j]
      /\ \A j \in DOMAIN s : j > Len(s) - MaxRetired =>
            \E k \in DOMAIN retired' : retired'[k] = s[j]
  BY <1>4, <1>5, NewestOf DEF s
<1>8. ASSUME NEW j \in DOMAIN s
      PROVE  \/ \E i \in DOMAIN retired : s[j] = retired[i]
             \/ \E a \in Team!Candidates : s[j] = Team!Entry(a)
  <2>1. CASE j \in 1..Len(retired)
    BY <1>6, <2>1
  <2>2. CASE j \notin 1..Len(retired)
    <3>1. j - Len(retired) \in 1..Len(EntriesOf) /\ j = Len(retired) + (j - Len(retired))
      BY <1>6, <2>2
    <3>2. s[j] = EntriesOf[j - Len(retired)]
      BY <1>6, <3>1
    <3>3. j - Len(retired) \in DOMAIN Gone
      BY <1>3, <1>6, <3>1
    <3> QED
      BY <1>1, <1>3, <3>2, <3>3
  <2> QED
    BY <2>1, <2>2
<1>9. ASSUME Team!Cardinality(Team!Candidates) <= MaxRetired, NEW a \in Team!Candidates
      PROVE  \E k \in DOMAIN retired' : retired'[k] = Team!Entry(a)
  <2>1. PICK k \in DOMAIN Gone : Gone[k] = a
    BY <1>1
  <2>2. k \in 1..Len(EntriesOf) /\ EntriesOf[k] = Team!Entry(a) /\ Len(EntriesOf) <= MaxRetired
    BY <1>1, <1>3, <1>6, <1>9, <2>1
  <2>3. /\ Len(retired) + k \in DOMAIN s /\ Len(retired) + k > Len(s) - MaxRetired
        /\ s[Len(retired) + k] = Team!Entry(a)
    BY <1>4, <1>6, <2>2
  <2> QED
    BY <1>7, <2>3
<1> QED
  BY <1>7, <1>8, <1>9

\* The run of the controller ends: who is done leaves, and the handles go into the queue.
LEMMA TeamRunFinish ==
    ASSUME Team!TeamInv, Team!RunFinish
    PROVE  /\ Team!TeamInv'
           /\ Team!NothingRetiredEarly /\ Team!DoneMembersLeave
<1> USE DEF Team!TeamInv
<1>1. /\ controller' = controller + 1 /\ finishedRuns' = Team!Remembered
      /\ members' = [a \in Team!Handle |->
                IF a \in Team!Candidates THEN Team!NoMember
                ELSE IF a \in Team!Mine(Self)
                     THEN [members[a] EXCEPT !.status = agents[members[a].current]]
                     ELSE members[a]]
      /\ retired' = Team!Newest(retired \o EntriesOf, MaxRetired)
      /\ mailboxes' = [a \in Team!Handle |->
                IF a \in Team!Candidates THEN <<>> ELSE mailboxes[a]]
      /\ collections' = Team!Flushed(QueueOf) /\ agents' = Team!Collected(QueueOf, {})
      /\ forgotten' = forgotten \cup (Team!ToSet(AllOf) \ Team!ToSet(QueueOf))
      /\ UNCHANGED <<messages, teamAnswered>>
  BY FinishOf
<1>2. Team!Candidates \subseteq Team!Members /\ Team!Members \subseteq Team!Handle
  BY CandidateOf, MemberOf
<1>3. \A a \in Team!Candidates : members'[a] = Team!NoMember /\ members'[a].owner = "none"
  BY <1>1, <1>2 DEF Team!NoMember
<1>4. \A a \in Team!Members \ Team!Candidates :
              /\ members'[a] \in Team!Member
              /\ members'[a].owner = members[a].owner
              /\ members'[a].current = members[a].current
              /\ members'[a].run = members[a].run
  <2> SUFFICES ASSUME NEW a \in Team!Members \ Team!Candidates
               PROVE  /\ members'[a] \in Team!Member
                      /\ members'[a].owner = members[a].owner
                      /\ members'[a].current = members[a].current
                      /\ members'[a].run = members[a].run
    OBVIOUS
  <2>1. /\ a \in Team!Handle /\ members[a] \in Team!Member /\ controller \in Nat
        /\ agents[members[a].current] \in Team!Status
    BY MemberOf DEF Team!TeamTypes, Team!Member
  <2>2. CASE a \in Team!Mine(Self)
    <3>1. members'[a] = [members[a] EXCEPT !.status = agents[members[a].current]]
      BY <1>1, <2>1, <2>2
    <3> QED
      BY <2>1, <3>1, NotedOf
  <2>3. CASE a \notin Team!Mine(Self)
    BY <1>1, <2>1, <2>3
  <2> QED
    BY <2>2, <2>3
<1>5. \A a \in Team!Handle \ Team!Members : members'[a] = members[a] /\ members[a].owner = "none"
  BY <1>1, <1>2, MemberOf DEF Team!Members
<1>6. Team!Members' = Team!Members \ Team!Candidates
  BY <1>2, <1>3, <1>4, <1>5 DEF Team!Members
<1>7. Team!Current' = {members[a].current : a \in Team!Members \ Team!Candidates}
  BY <1>4, <1>6 DEF Team!Current
<1>8. /\ AllOf \in Seq(Team!Handle) /\ QueueOf \in Seq(Team!Handle)
      /\ Team!ToSet(AllOf) = Team!ToSet(collections)
                             \cup {members[a].current : a \in Team!Candidates}
      /\ Team!ToSet(QueueOf) \subseteq Team!ToSet(AllOf)
  BY QueueAtFinish
<1>9. /\ retired' \in Seq(Team!Entries)
      /\ \A k \in DOMAIN retired' : \/ \E j \in DOMAIN retired : retired'[k] = retired[j]
                                    \/ \E a \in Team!Candidates : retired'[k] = Team!Entry(a)
      /\ Team!Cardinality(Team!Candidates) <= MaxRetired =>
            \A a \in Team!Candidates : \E k \in DOMAIN retired' : retired'[k] = Team!Entry(a)
  BY <1>1, LedgerAtFinish
<1>10. agents \in [Team!Handle -> Team!Status]
  BY DEF Team!TeamTypes
<1>11. /\ collections' \in Seq(Team!Handle)
       /\ Team!ToSet(collections') \subseteq Team!ToSet(QueueOf)
  BY <1>1, <1>8, <1>10, FlushedOf
<1>12. /\ agents' \in [Team!Handle -> Team!Status]
       /\ \A h \in Team!Handle : agents[h] # "none" => agents'[h] # "none"
  BY <1>1, <1>10, CollectedOf
<1>13. /\ Team!Remembered \in Seq(Nat)
       /\ Len(Team!Remembered) = IF controller < MaxFinished THEN controller ELSE MaxFinished
       /\ \A i \in DOMAIN Team!Remembered :
             Team!Remembered[i] + Len(Team!Remembered) = controller + i
       /\ \A r \in 1..controller : r + MaxFinished > controller => r \in Team!ToSet(Team!Remembered)
  BY RememberedOf
<1>14. \A h \in Team!ToSet(QueueOf) :
          h \in Team!Handle /\ agents[h] # "none" /\ h \notin Team!Current'
  <2>1. \A h \in Team!ToSet(collections) :
           h \in Team!Handle /\ agents[h] # "none" /\ h \notin Team!Current
    BY DEF Team!ToSet, Team!HandlesBegun, Team!TeamTypes, Team!HandlesAccounted
  <2>2. \A a \in Team!Candidates :
           /\ members[a].current \in Team!Handle /\ agents[members[a].current] # "none"
           /\ members[a].current \notin Team!Current'
    <3> SUFFICES ASSUME NEW a \in Team!Candidates
                 PROVE  /\ members[a].current \in Team!Handle
                        /\ agents[members[a].current] # "none"
                        /\ members[a].current \notin Team!Current'
      OBVIOUS
    <3>1. a \in Team!Members /\ members[a].current \in Team!Handle
      BY CandidateOf
    <3>2. agents[members[a].current] # "none"
      BY <3>1 DEF Team!HandlesBegun
    <3>3. \A b \in Team!Members \ Team!Candidates : members[b].current # members[a].current
      BY <3>1 DEF Team!HandlesAccounted
    <3> QED
      BY <1>7, <3>1, <3>2, <3>3
  <2>3. Team!Current' \subseteq Team!Current
    BY <1>7 DEF Team!Current
  <2> QED
    BY <1>8, <2>1, <2>2, <2>3
<1>15. Team!TeamTypes'
  <2>1. members' \in [Team!Handle -> Team!Member \cup {Team!NoMember}]
    <3>1. \A a \in Team!Handle : members'[a] \in Team!Member \cup {Team!NoMember}
      BY <1>3, <1>4, <1>5 DEF Team!TeamTypes
    <3> QED
      BY <1>1, <3>1
  <2>2. mailboxes' \in [Team!Handle -> Seq(Team!Mail)]
    BY <1>1, EmptySeq DEF Team!TeamTypes
  <2>3. forgotten' \subseteq Team!Handle
    <3>1. Team!ToSet(AllOf) \subseteq Team!Handle
      BY <1>8 DEF Team!ToSet
    <3> QED
      BY <1>1, <3>1 DEF Team!TeamTypes
  <2>4. controller' \in Nat \ {0}
    BY <1>1 DEF Team!TeamTypes
  <2> QED
    BY <1>1, <1>9, <1>11, <1>12, <1>13, <2>1, <2>2, <2>3, <2>4 DEF Team!TeamTypes
<1>16. Team!HandlesBegun'
  <2>1. \A a \in Team!Members' : agents'[a] # "none" /\ agents'[members'[a].current] # "none"
    BY <1>2, <1>4, <1>6, <1>12, MemberOf DEF Team!HandlesBegun, Team!Member
  <2>2. \A i \in DOMAIN collections' : agents'[collections'[i]] # "none"
    BY <1>11, <1>12, <1>14 DEF Team!ToSet
  <2>3. \A i \in DOMAIN retired' : agents'[retired'[i].address] # "none"
    <3>1. \A i \in DOMAIN retired : agents'[retired[i].address] # "none"
      BY <1>12, RetiredOf DEF Team!HandlesBegun
    <3>2. \A a \in Team!Candidates : agents'[Team!Entry(a).address] # "none"
      BY <1>2, <1>12, CandidateOf DEF Team!HandlesBegun
    <3> QED
      BY <1>9, <3>1, <3>2
  <2> QED
    BY <2>1, <2>2, <2>3 DEF Team!HandlesBegun
<1>17. \A b \in Team!Handle : mailboxes'[b] = mailboxes[b] \/ mailboxes'[b] = <<>>
  BY <1>1
<1>18. /\ \A b \in Team!Handle : \A k \in DOMAIN mailboxes'[b] :
            \E j \in DOMAIN mailboxes[b] : mailboxes'[b][k].id = mailboxes[b][j].id
       /\ \A b \in Team!Handle : \A k, l \in DOMAIN mailboxes'[b] :
            mailboxes'[b][k].id = mailboxes'[b][l].id => k = l
       /\ messages' = messages /\ teamAnswered' = teamAnswered
  BY <1>1, <1>17 DEF Team!MailNumbered
<1>19. Team!MailNumbered'
  BY <1>18, MailLeft DEF Team!MailNumbered
<1>20. Team!RunsRemembered'
  <2>1. controller \in Nat /\ controller >= 1 /\ MaxFinished \in Nat /\ MaxFinished >= 1
    BY TeamConstants DEF Team!TeamTypes
  <2>2. Len(finishedRuns') = IF controller' <= MaxFinished THEN controller' - 1 ELSE MaxFinished
    BY <1>1, <1>13, <2>1
  <2>3. \A i \in DOMAIN finishedRuns' :
           finishedRuns'[i] + Len(finishedRuns') + 1 = controller' + i
    <3>1. finishedRuns' \in Seq(Nat)
      BY <1>1, <1>13
    <3> SUFFICES ASSUME NEW i \in DOMAIN finishedRuns'
                 PROVE  finishedRuns'[i] + Len(finishedRuns') + 1 = controller' + i
      OBVIOUS
    <3>2. /\ i \in Nat /\ Len(finishedRuns') \in Nat /\ finishedRuns'[i] \in Nat
      BY <3>1
    <3>3. finishedRuns'[i] + Len(finishedRuns') = controller + i
      BY <1>1, <1>13
    <3>4. finishedRuns'[i] + Len(finishedRuns') + 1 = controller + i + 1
      BY <3>3
    <3> QED
      BY <1>1, <2>1, <3>2, <3>4
  <2>4. \A a \in Team!Mine(Self)' : members'[a].run \in 1..controller'
    <3>1. \A a \in Team!Mine(Self)' :
             a \in Team!Mine(Self) /\ members'[a].run = members[a].run
      <4>1. \A a \in Team!Mine(Self)' : a \in Team!Members'
        BY TeamConstants DEF Team!Mine, Team!Members
      <4> QED
        BY <1>4, <1>6, <4>1 DEF Team!Mine
    <3>2. \A a \in Team!Mine(Self) : members[a].run \in 1..controller
      BY DEF Team!RunsRemembered
    <3> QED
      BY <1>1, <2>1, <3>1, <3>2
  <2> QED
    BY <2>2, <2>3, <2>4 DEF Team!RunsRemembered
<1>21. Team!HandlesAccounted'
  <2>1. Team!ToSet(collections) \subseteq Team!ToSet(QueueOf) \cup forgotten'
    BY <1>1, <1>8
  <2>2. Team!Current \subseteq Team!Current' \cup Team!ToSet(QueueOf) \cup forgotten'
    <3>1. \A a \in Team!Members : members[a].current \in
             Team!Current' \cup Team!ToSet(QueueOf) \cup forgotten'
      BY <1>1, <1>7, <1>8
    <3> QED
      BY <3>1 DEF Team!Current
  <2>3. Team!Current' \subseteq Team!Current
    BY <1>7 DEF Team!Current
  <2>4. \A a, b \in Team!Members' : a # b => members'[a].current # members'[b].current
    BY <1>4, <1>6 DEF Team!HandlesAccounted
  <2>5. forgotten \subseteq forgotten'
    BY <1>1
  <2>6. \A h \in Team!ToSet(QueueOf) : agents[h] # "none" /\ h \notin Team!Current'
    BY <1>14
  <2>7. collections' = Team!Flushed(QueueOf) /\ agents' = Team!Collected(QueueOf, {})
    BY <1>1
  <2>8. QueueOf \in Seq(Team!Handle)
    BY <1>8
  <2>9. /\ {} \in SUBSET Team!Handle /\ \A h \in {} : agents[h] = "none"
        /\ {} \subseteq Team!Current' /\ Team!Current' \subseteq Team!Current \cup {}
    BY <2>3
  <2> QED
    BY <1>15, <2>1, <2>2, <2>4, <2>5, <2>6, <2>7, <2>8, <2>9, HandlesFlushed
<1>22. Team!HandedOnce'
  <2>1. \A i \in DOMAIN retired' : retired'[i].address \notin Team!Members'
    <3>1. \A i \in DOMAIN retired : retired[i].address \notin Team!Members'
      BY <1>6 DEF Team!HandedOnce
    <3>2. \A a \in Team!Candidates : Team!Entry(a).address \notin Team!Members'
      BY <1>6, CandidateOf
    <3> QED
      BY <1>9, <3>1, <3>2
  <2> QED
    BY <1>18, <2>1, MailLeft DEF Team!HandedOnce
<1>23. Team!NothingRetiredEarly
  <2> SUFFICES ASSUME NEW a \in Team!Members, members'[a].owner = "none"
               PROVE  /\ agents[members[a].current] \in Team!Terminal
                      /\ mailboxes[a] = <<>>
                      /\ Team!Cardinality(Team!Candidates) <= MaxRetired =>
                            \E i \in DOMAIN retired' : retired'[i] = Team!Entry(a)
    BY DEF Team!NothingRetiredEarly
  <2>1. a \in Team!Candidates
    BY <1>4 DEF Team!Members
  <2> QED
    BY <1>9, <2>1, CandidateOf
<1>24. Team!DoneMembersLeave
  <2> SUFFICES ASSUME NEW a \in Team!Handle, members'[a].owner = Self,
                      members'[a].run + MaxFinished > controller,
                      agents[members[a].current] \in Team!Terminal, mailboxes[a] = <<>>
               PROVE  FALSE
    BY DEF Team!DoneMembersLeave
  <2>1. a \in Team!Members \ Team!Candidates
    BY <1>6, TeamConstants DEF Team!Members
  <2>2. a \in Team!Mine(Self) /\ members'[a].run = members[a].run
    BY <1>4, <2>1 DEF Team!Mine
  <2>3. members[a].run \in Team!ToSet(Team!Remembered)
    BY <1>13, <2>2 DEF Team!RunsRemembered
  <2>4. a \in Team!Candidates
    BY <2>2, <2>3 DEF Team!Candidates, Team!Retirable, Team!Unread
  <2> QED
    BY <2>1, <2>4
<1> QED
  BY <1>15, <1>16, <1>19, <1>20, <1>21, <1>22, <1>23, <1>24

\* The team begins empty.
LEMMA TeamBegins == Team!Init => Team!TeamInv
<1> SUFFICES ASSUME Team!Init PROVE Team!TeamInv
  OBVIOUS
<1> USE DEF Team!Init
<1>1. Team!Members = {} /\ Team!Current = {} /\ Team!Mine(Self) = {}
  BY TeamConstants DEF Team!Members, Team!Current, Team!Mine, Team!NoMember
<1>2. Team!TeamTypes
  <2>1. mailboxes \in [Team!Handle -> Seq(Team!Mail)]
    BY EmptySeq
  <2>2. retired \in Seq(Team!Entries) /\ finishedRuns \in Seq(Nat) /\ collections \in Seq(Team!Handle)
    BY EmptySeq
  <2> QED
    BY <2>1, <2>2 DEF Team!TeamTypes, Team!Status, Team!Terminal
<1>3. Team!HandlesBegun /\ Team!MailNumbered
  BY <1>1 DEF Team!HandlesBegun, Team!MailNumbered
<1>4. Team!RunsRemembered
  BY <1>1, TeamConstants DEF Team!RunsRemembered
<1>5. Team!HandlesAccounted /\ Team!HandedOnce
  BY <1>1 DEF Team!HandlesAccounted, Team!HandedOnce
<1> QED
  BY <1>2, <1>3, <1>4, <1>5 DEF Team!TeamInv

\* Every step of the team.
LEMMA TeamStep ==
    ASSUME Team!TeamInv, Team!Next
    PROVE  Team!TeamInv' /\ Team!NothingRetiredEarly /\ Team!DoneMembersLeave
<1> SUFFICES Team!TeamInv' /\ (controller' = controller \/ Team!RunFinish)
  BY TeamRunFinish DEF Team!NothingRetiredEarly, Team!DoneMembersLeave
<1>1. ASSUME NEW h \in Team!Handle, Team!AgentEnds(h)
      PROVE  Team!TeamInv' /\ controller' = controller
  BY <1>1, TeamAgentEnds DEF Team!AgentEnds
<1>2. ASSUME NEW o \in TeamOwner, NEW captain \in BOOLEAN, Team!Spawn(o, captain)
      PROVE  Team!TeamInv' /\ controller' = controller
  BY <1>2, MemberSpawned DEF Team!Spawn
<1>3. ASSUME NEW o \in TeamOwner, NEW a \in Team!Handle, Team!Query(o, a) \/ Team!Cancel(o, a)
      PROVE  Team!TeamInv' /\ controller' = controller
  BY <1>3, MemberNoted DEF Team!Query, Team!Cancel
<1>4. ASSUME NEW o \in TeamOwner, NEW a \in Team!Handle, Team!Dismiss(o, a)
      PROVE  Team!TeamInv' /\ controller' = controller
  <2>1. CASE a \in Team!Mine(o)
    BY <1>4, <2>1, MemberDismissed DEF Team!Dismiss
  <2>2. CASE a \notin Team!Mine(o)
    BY <1>4, <2>2, OutcomeDismissed DEF Team!Dismiss
  <2> QED
    BY <2>1, <2>2
<1>5. ASSUME NEW o \in TeamOwner, NEW a \in Team!Handle, Team!Send(o, a)
      PROVE  Team!TeamInv' /\ controller' = controller
  BY <1>5, MailSent DEF Team!Send
<1>6. ASSUME NEW o \in TeamOwner, NEW a \in Team!Handle, NEW i \in DOMAIN mailboxes[a],
             Team!Ack(o, a, i)
      PROVE  Team!TeamInv' /\ controller' = controller
  BY <1>6, MailConfirmed DEF Team!Ack
<1>7. ASSUME NEW o \in TeamOwner, NEW a \in Team!Handle, NEW i \in DOMAIN mailboxes[a],
             Team!Dispatch(o, a, i)
      PROVE  Team!TeamInv' /\ controller' = controller
  BY <1>7, MailDispatched DEF Team!Dispatch
<1>8. ASSUME NEW a \in Team!Handle, Team!Submit(a)
      PROVE  Team!TeamInv' /\ controller' = controller
  BY <1>8, MemberSubmitted DEF Team!Submit
<1>9. ASSUME Team!Refresh PROVE Team!TeamInv' /\ controller' = controller
  BY <1>9, TeamRefreshed DEF Team!Refresh
<1>10. ASSUME Team!RunFinish PROVE Team!TeamInv'
  BY <1>10, TeamRunFinish
<1> QED
  BY <1>1, <1>2, <1>3, <1>4, <1>5, <1>6, <1>7, <1>8, <1>9, <1>10 DEF Team!Next

\* A step of nothing keeps the invariant, and no run ends with it.
LEMMA TeamStays ==
    ASSUME Team!TeamInv, UNCHANGED teamVars
    PROVE  Team!TeamInv' /\ Team!NothingRetiredEarly /\ Team!DoneMembersLeave
<1> USE DEF teamVars
<1>1. Team!Members' = Team!Members /\ Team!Current' = Team!Current /\ Team!Mine(Self)' = Team!Mine(Self)
  BY DEF Team!Members, Team!Current, Team!Mine
<1>2. Team!TeamTypes' /\ Team!HandlesBegun'
  BY <1>1 DEF Team!TeamInv, Team!TeamTypes, Team!HandlesBegun
<1>3. Team!MailNumbered'
  BY DEF Team!TeamInv, Team!MailNumbered
<1>4. Team!RunsRemembered'
  BY <1>1 DEF Team!TeamInv, Team!RunsRemembered
<1>5. Team!HandlesAccounted'
  BY <1>1 DEF Team!TeamInv, Team!HandlesAccounted
<1>6. Team!HandedOnce'
  BY <1>1 DEF Team!TeamInv, Team!HandedOnce
<1>7. Team!NothingRetiredEarly /\ Team!DoneMembersLeave
  BY DEF Team!NothingRetiredEarly, Team!DoneMembersLeave
<1> QED
  BY <1>2, <1>3, <1>4, <1>5, <1>6, <1>7 DEF Team!TeamInv

\* A team that nobody has used, and no team in another behaviour.
LEMMA TeamBeginsInPart == PartsInit => (part = "team" => Team!TeamInv)
BY TeamBegins DEF PartsInit

\* A step is the team's own, or leaves the team alone.
LEMMA StepOfTheTeam ==
    ASSUME [PartsNext]_partsVars
    PROVE  /\ UNCHANGED part
           /\ part = "team" => Team!Next \/ UNCHANGED teamVars
BY DEF PartsNext, PartsStay, PartsGo, OwnParts, partsVars

\* Every step of the module keeps the team's invariant.
LEMMA TeamStepInPart ==
    (part = "team" => Team!TeamInv) /\ [PartsNext]_partsVars => (part = "team" => Team!TeamInv)'
BY StepOfTheTeam, TeamStep, TeamStays

\* teammate-plugin: for any owners, members, messages and runs, every handle the Runtime gave
\* is a member's, in the queue, given back or let go by a full queue; no message is carried
\* out twice; and at the end of a run the members that are done leave, and only they.
THEOREM TeammatesCorrect == PartsSpec => TeammatesKept
<1>1. (part = "team" => Team!TeamInv) => (part = "team" => Team!HandlesAccounted /\ Team!HandedOnce)
  BY DEF Team!TeamInv
<1>2. (part = "team" => Team!TeamInv) /\ [PartsNext]_partsVars =>
         (part = "team" => Team!NothingRetiredEarly /\ Team!DoneMembersLeave)
  BY StepOfTheTeam, TeamStep, TeamStays
<1> QED
  BY <1>1, <1>2, TeamBeginsInPart, TeamStepInPart, PTL DEF PartsSpec, TeammatesKept
==============================================================================
