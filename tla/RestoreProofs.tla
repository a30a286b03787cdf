---------------------------- MODULE RestoreProofs ----------------------------
(***************************************************************************)
(* Theorems about backups and restores for any retention, any labels and   *)
(* any number of bundles and restores.                                     *)
(***************************************************************************)
EXTENDS Restore, FiniteSetTheorems, WellFoundedInduction, TLAPS

\* A set of at most n of which n are left when b is taken out is left with just n.
LEMMA OneTaken ==
  ASSUME NEW B, IsFiniteSet(B), NEW n \in Nat, Cardinality(B) <= n + 1, NEW b \in B,
         NEW T, T \subseteq B \ {b}, Cardinality(T) >= n
  PROVE  T = B \ {b} /\ Cardinality(T) = n
<1>1. Cardinality(B \ {b}) = Cardinality(B) - 1 /\ IsFiniteSet(B \ {b})
  BY FS_RemoveElement
<1>2. Cardinality(B) \in Nat /\ Cardinality(T) \in Nat /\ IsFiniteSet(T)
  BY <1>1, FS_CardinalityType, FS_Subset
<1>3. Cardinality(T) <= Cardinality(B \ {b})
  BY <1>1, FS_Subset
<1>4. Cardinality(T) = n /\ Cardinality(B \ {b}) = n
  BY <1>1, <1>2, <1>3
<1>5. T = B \ {b}
  BY <1>1, <1>4, FS_Subset
<1> QED BY <1>4, <1>5

\* A set of numbers has a least one.
LEMMA LeastOf == ASSUME NEW S, S \subseteq Nat, S # {} PROVE \E n \in S : \A m \in S : n <= m
<1>1. PICK n \in S : \A m \in S : ~ (<<m, n>> \in OpToRel(<, Nat))
  BY NatLessThanWellFounded, WFMin
<1>2. ASSUME NEW m \in S PROVE n <= m
  <2>1. ~ (m < n)
    BY <1>1 DEF OpToRel
  <2> QED BY <2>1
<1> QED BY <1>2

\* All the others of a set of bundles are later than one of them.
LEMMA OldestOf ==
  ASSUME NEW F, F \subseteq [label : Nat, stamp : Nat], F # {}
  PROVE  \E b \in F : \A c \in F \ {b} : Later(c, b)
<1>1. PICK s \in {b.stamp : b \in F} : \A t \in {b.stamp : b \in F} : s <= t
  <2>1. {b.stamp : b \in F} \subseteq Nat /\ {b.stamp : b \in F} # {}
    OBVIOUS
  <2> QED BY <2>1, LeastOf
<1> DEFINE G == {b \in F : b.stamp = s}
<1>2. PICK n \in {b.label : b \in G} : \A m \in {b.label : b \in G} : n <= m
  <2>1. {b.label : b \in G} \subseteq Nat /\ {b.label : b \in G} # {}
    BY <1>1
  <2> QED BY <2>1, LeastOf
<1>3. PICK b \in F : b.stamp = s /\ b.label = n
  BY <1>2
<1>4. ASSUME NEW c \in F \ {b} PROVE Later(c, b)
  <2>1. b \in [label : Nat, stamp : Nat] /\ c \in [label : Nat, stamp : Nat]
    OBVIOUS
  <2>2. c.stamp # b.stamp \/ c.label # b.label
    BY <1>4, <2>1
  <2>3. s <= c.stamp /\ (c.stamp = s => n <= c.label)
    BY <1>1, <1>2
  <2> QED BY <1>3, <2>1, <2>2, <2>3 DEF Later
<1> QED BY <1>4

-----------------------------------------------------------------------------

\* Rotation leaves at most Retention bundles, none of the future, and what it
\* took is no newer than any of them.
BundleInv ==
  /\ minute \in Nat /\ IsFiniteSet(bundles) /\ Cardinality(bundles) <= Retention
  /\ label \in Labels /\ bundles \cup landed \subseteq [label : Nat, stamp : Nat]
  /\ \A b \in bundles \cup landed : b.stamp <= minute
  /\ NewestKept

LEMMA BundleLand == ASSUME BundleInv, NEW p \in Callers, Land(p) PROVE BundleInv'
<1> DEFINE new   == [label |-> label, stamp |-> minute']
           files == bundles \cup {new}
           later(b) == {c \in files : Later(c, b)}
<1>0. Retention \in Nat \ {0} /\ minute \in Nat
  BY BackupAssumption DEF BundleInv
<1>1. /\ minute' \in Nat /\ minute <= minute'
      /\ bundles' = files \ Outdated(files) /\ landed' = landed \cup {new}
  BY <1>0 DEF Land
<1>2. /\ IsFiniteSet(files)
      /\ Cardinality(files) <= Retention + 1 /\ Cardinality(files) \in Nat
  <2>1. /\ IsFiniteSet(files)
        /\ Cardinality(files) = IF new \in bundles THEN Cardinality(bundles)
                                ELSE Cardinality(bundles) + 1
    BY FS_AddElement DEF BundleInv
  <2>2. Cardinality(bundles) \in Nat
    BY FS_CardinalityType DEF BundleInv
  <2> QED BY <1>0, <2>1, <2>2 DEF BundleInv
<1>3. /\ new \in [label : Nat, stamp : Nat]
      /\ files \cup landed' \subseteq [label : Nat, stamp : Nat]
      /\ \A b \in files \cup landed' : b.stamp <= minute'
  BY <1>0, <1>1, BackupAssumption DEF BundleInv
<1>4. IsFiniteSet(bundles') /\ bundles' \subseteq files
  BY <1>1, <1>2, FS_Subset
<1>5. ASSUME NEW b \in Outdated(files)
      PROVE  later(b) = files \ {b} /\ Cardinality(later(b)) = Retention
  <2>1. b \in files /\ Cardinality(later(b)) >= Retention
    BY <1>5 DEF Outdated
  <2>2. later(b) \subseteq files \ {b}
    BY <1>3, <2>1 DEF Later
  <2> HIDE DEF files, later
  <2> QED BY <1>0, <1>2, <2>1, <2>2, OneTaken
<1>6. ASSUME NEW b \in Outdated(files)
      PROVE  bundles' = files \ {b} /\ Cardinality(bundles') = Retention
  <2>1. b \in files /\ later(b) = files \ {b}
    BY <1>5, <1>6 DEF Outdated
  <2>2. ASSUME NEW c \in Outdated(files) PROVE c = b
    <3>1. c \in files /\ later(c) = files \ {c}
      BY <1>5, <2>2 DEF Outdated
    <3>2. ASSUME c # b PROVE FALSE
      <4>1. c \in later(b) /\ b \in later(c)
        BY <2>1, <3>1, <3>2
      <4>2. Later(c, b) /\ Later(b, c)
        BY <4>1
      <4> QED BY <1>3, <2>1, <3>1, <4>2 DEF Later
    <3> QED BY <3>2
  <2>3. Outdated(files) = {b}
    BY <2>2, <1>6
  <2> HIDE DEF files, later
  <2> QED BY <1>1, <1>5, <1>6, <2>1, <2>3
<1>7. Cardinality(bundles') <= Retention
  <2>1. CASE \E b \in Outdated(files) : TRUE
    BY <1>0, <1>6, <2>1
  <2>2. CASE Outdated(files) = {}
    <3>1. bundles' = files
      BY <1>1, <2>2
    <3>2. ASSUME Cardinality(files) > Retention PROVE FALSE
      <4>1. files # {} /\ files \subseteq [label : Nat, stamp : Nat]
        BY <1>3
      <4>2. PICK b \in files : \A c \in files \ {b} : Later(c, b)
        <5> HIDE DEF files
        <5> QED BY <4>1, OldestOf
      <4>3. files \ {b} \subseteq later(b)
        BY <4>2
      <4>4. /\ IsFiniteSet(later(b)) /\ IsFiniteSet(files \ {b})
            /\ Cardinality(files \ {b}) = Cardinality(files) - 1
        <5> HIDE DEF files
        <5> QED BY <1>2, FS_RemoveElement, FS_Subset
      <4>5. Cardinality(files \ {b}) <= Cardinality(later(b)) /\ Cardinality(later(b)) \in Nat
        <5> HIDE DEF files, later
        <5> QED BY <4>3, <4>4, FS_Subset, FS_CardinalityType
      <4>6. Cardinality(later(b)) >= Retention
        <5> HIDE DEF files, later
        <5> QED BY <1>0, <1>2, <3>2, <4>4, <4>5
      <4>7. b \in Outdated(files)
        BY <4>2, <4>6 DEF Outdated
      <4> QED BY <2>2, <4>7
    <3> QED BY <1>0, <1>2, <3>1, <3>2
  <2> QED BY <2>1, <2>2
<1>8. ASSUME NEW b \in landed' \ bundles'
      PROVE  Cardinality({c \in bundles' : c.stamp >= b.stamp}) >= Retention
  <2> DEFINE noOlder == {c \in bundles' : c.stamp >= b.stamp}
  <2>1. CASE b \in files
    <3>1. b \in Outdated(files)
      BY <1>1, <1>8, <2>1
    <3>2. bundles' = files \ {b} /\ Cardinality(bundles') = Retention /\ later(b) = files \ {b}
      BY <1>5, <1>6, <3>1
    <3>3. \A c \in bundles' : c.stamp >= b.stamp
      <4>1. \A c \in files \ {b} : Later(c, b)
        BY <3>2
      <4> QED BY <1>3, <2>1, <3>2, <4>1 DEF Later
    <3>4. noOlder = bundles'
      BY <3>3
    <3> QED BY <1>0, <3>2, <3>4
  <2>2. CASE b \notin files
    <3>1. b \in landed \ bundles
      BY <1>1, <1>8, <2>2
    <3>2. bundles = {c \in bundles : c.stamp >= b.stamp} /\ Cardinality(bundles) = Retention
      <4>1. Cardinality({c \in bundles : c.stamp >= b.stamp}) >= Retention
        BY <3>1 DEF BundleInv, NewestKept
      <4>2. {c \in bundles : c.stamp >= b.stamp} \in SUBSET bundles
        OBVIOUS
      <4> DEFINE T == {c \in bundles : c.stamp >= b.stamp}
      <4> HIDE DEF T
      <4>3. T \in SUBSET bundles /\ Cardinality(T) >= Retention
        BY <4>1, <4>2 DEF T
      <4>4. /\ Cardinality(T) <= Cardinality(bundles) /\ Cardinality(T) \in Nat
            /\ Cardinality(bundles) \in Nat
            /\ Cardinality(bundles) = Cardinality(T) => bundles = T
        BY <4>3, FS_Subset, FS_CardinalityType DEF BundleInv
      <4> QED BY <1>0, <4>3, <4>4 DEF BundleInv, T
    <3>3. b.stamp \in Nat /\ b.stamp <= minute
      BY <3>1 DEF BundleInv
    <3>4. \A c \in files : c.stamp >= b.stamp
      <4>1. new.stamp >= b.stamp
        BY <1>0, <1>1, <3>3
      <4> QED BY <3>2, <4>1
    <3>5. noOlder = bundles'
      BY <1>4, <3>4
    <3>6. Cardinality(bundles') >= Retention
      <4>1. CASE \E d \in Outdated(files) : TRUE
        BY <1>0, <1>6, <4>1
      <4>2. CASE Outdated(files) = {}
        <5>1. bundles' = files /\ bundles \subseteq files
          BY <1>1, <4>2
        <5> HIDE DEF files
        <5>2. Cardinality(bundles) <= Cardinality(files)
          BY <1>2, <5>1, FS_Subset
        <5> QED BY <1>0, <1>2, <3>2, <5>1, <5>2
      <4> QED BY <4>1, <4>2
    <3> QED BY <3>5, <3>6
  <2> QED BY <2>1, <2>2
<1>9. NewestKept'
  BY <1>8 DEF NewestKept
<1>10. label' \in Labels /\ UNCHANGED label
  BY DEF Land, BundleInv
<1>11. /\ bundles' \cup landed' \subseteq [label : Nat, stamp : Nat]
       /\ \A b \in bundles' \cup landed' : b.stamp <= minute'
  <2>1. bundles' \cup landed' \subseteq files \cup landed'
    BY <1>4
  <2> HIDE DEF files
  <2> QED BY <1>3, <2>1
<1> QED BY <1>1, <1>4, <1>7, <1>9, <1>10, <1>11 DEF BundleInv

BundlesKept == UNCHANGED <<bundles, landed, minute>> /\ label' \in {label} \cup Labels

\* Only a bundle that lands and the rotation after it touch the bundles.
LEMMA BundleStep == RestoreNext => BundlesKept \/ \E p \in Callers : Land(p)
<1> SUFFICES ASSUME RestoreNext
             PROVE  BundlesKept \/ \E p \in Callers : Land(p)
  OBVIOUS
<1> USE DEF BundlesKept, backupVars, runVars, scheduleVars
<1>1. CASE BackupGoesOn
  <2>1. ASSUME NEW p \in Callers, RunStep(p)
        PROVE  BundlesKept \/ Land(p)
    BY <2>1 DEF RunStep, Copied, KeyDone, Step, Delivered, RunFails, Finish
  <2>2. CASE TimerFires \/ CatchUpFires \/ BackupNow \/ SetConfig \/ Tick
    BY <2>2 DEF TimerFires, CatchUpFires, BackupNow, SetConfig, Tick
  <2> QED BY <1>1, <2>1, <2>2 DEF BackupGoesOn
<1>2. CASE Upload \/ Staged \/ DropStaged \/ Confirm \/ Commit
  BY <1>2 DEF Upload, Staged, DropStaged, Confirm, Commit
<1>3. CASE SnapshotDone \/ SnapshotFails \/ Teardown \/ Stopped \/ Swap \/ SwapFails
  BY <1>3 DEF SnapshotDone, SnapshotFails, Teardown, Stopped, Swap, SwapFails,
     GiveUp, RestoreGone
<1>4. ASSUME NEW p \in Callers, CutShort(p) PROVE BundlesKept
  BY <1>4 DEF CutShort
<1>5. CASE Backstop \/ RestoreCrash \/ Sigterm \/ RestoreStart
  BY <1>5 DEF Backstop, RestoreCrash, Sigterm, Dies, RestoreGone, RestoreStart,
     BackupStart, WorkerStarts
<1> QED BY <1>1, <1>2, <1>3, <1>4, <1>5 DEF RestoreNext

\* For any retention and whatever labels bundles were given, with any number of
\* them in one minute, a bundle is gone only when Retention others that are no
\* older are left, restores, crashes and failing runs in between.
THEOREM RotationKeepsNewest == RestoreSpec => []NewestKept
<1>1. RestoreInit => BundleInv
  BY FS_EmptySet, BackupAssumption DEF RestoreInit, BackupInit, BundleInv, NewestKept
<1>2. BundleInv /\ [RestoreNext]_<<backupVars, restoreVars>> => BundleInv'
  <2> SUFFICES ASSUME BundleInv,
      [RestoreNext]_<<backupVars, restoreVars>> PROVE BundleInv'
    OBVIOUS
  <2>1. CASE BundlesKept
    BY <2>1 DEF BundlesKept, BundleInv, NewestKept
  <2>2. CASE \E p \in Callers : Land(p)
    BY <2>2, BundleLand
  <2>3. CASE UNCHANGED <<backupVars, restoreVars>>
    BY <2>1, <2>3 DEF BundlesKept, backupVars, runVars
  <2> QED BY <2>1, <2>2, <2>3, BundleStep
<1>3. BundleInv => NewestKept
  BY DEF BundleInv
<1> QED BY <1>1, <1>2, <1>3, PTL DEF RestoreSpec

-----------------------------------------------------------------------------

\* A restore past its snapshot has it, complete; the bundle is in place only
\* between the end of the process that put it there and the next one's start.
SwapInv ==
  /\ begun \in Nat /\ staged \in Nat /\ sent \in Nat
  /\ restore \in [at : {"idle", "unpack", "told", "snapshot", "stop", "swap"}, id : Nat]
  /\ \A s \in snapshots : s.stamp \in Nat /\ s.stamp <= begun
  /\ restore.at \in {"stop", "swap"} => \E s \in snapshots : s.of = begun /\ s.whole
  /\ file = "bundle" => ~up
  /\ file \in {"live", "bundle"}
  /\ RestoreAllOrNothing

LEMMA SwapInit == RestoreInit => SwapInv
BY DEF RestoreInit, BackupInit, SwapInv, RestoreAllOrNothing, Idle

LEMMA SwapSnapshotDone == ASSUME SwapInv, SnapshotDone PROVE SwapInv'
<1>0. PICK m \in 1..begun :
        /\ \A t \in snapshots : t.stamp <= m
        /\ LET all == {t \in snapshots : t.stamp # m}
                        \cup {[stamp |-> m, of |-> begun, whole |-> TRUE]}
           IN  snapshots' = {s \in all : Cardinality({t \in all : t.stamp > s.stamp}) < PreKeep}
  BY DEF SnapshotDone, WithSnapshot
<1> DEFINE new == [stamp |-> m, of |-> begun, whole |-> TRUE]
           all == {t \in snapshots : t.stamp # m} \cup {new}
           late(s) == {t \in all : t.stamp > s.stamp}
<1>1. /\ snapshots' = {s \in all : Cardinality(late(s)) < PreKeep}
      /\ restore' = [restore EXCEPT !.at = "stop"]
      /\ UNCHANGED <<up, staged, sent, begun, file, wal>>
  BY <1>0 DEF SnapshotDone, backupVars, stagingVars
<1>2. \A s \in all : s.stamp \in Nat /\ s.stamp <= begun
  BY <1>0 DEF SwapInv
<1>3. new \in snapshots' /\ new.of = begun /\ new.whole
  <2>1. late(new) = {}
    BY <1>0, <1>2 DEF SwapInv
  <2>2. Cardinality(late(new)) < PreKeep
    BY <2>1, FS_EmptySet, RestoreAssumption
  <2> QED BY <1>1, <2>2
<1>4. file = "live" /\ up
  BY DEF SwapInv, SnapshotDone, Handler
<1> QED BY <1>1, <1>2, <1>3, <1>4 DEF SwapInv, RestoreAllOrNothing

LEMMA SwapNext == SwapInv /\ [RestoreNext]_<<backupVars, restoreVars>> => SwapInv'
<1> SUFFICES ASSUME SwapInv, [RestoreNext]_<<backupVars, restoreVars>> PROVE SwapInv'
  OBVIOUS
<1> USE DEF SwapInv, RestoreAllOrNothing, Handler, Idle, backupVars, diskVars,
        stagingVars
<1>1. CASE BackupGoesOn
  <2>1. UNCHANGED restoreVars
    BY <1>1 DEF BackupGoesOn
  <2>2. up' = up
    <3>1. ASSUME NEW p \in Callers, RunStep(p) PROVE up' = up
      BY <3>1 DEF RunStep, Copied, KeyDone, Step, Land, Delivered, RunFails, Finish
    <3>2. CASE TimerFires \/ CatchUpFires \/ BackupNow \/ SetConfig \/ Tick
      BY <3>2 DEF TimerFires, CatchUpFires, BackupNow, SetConfig, Tick
    <3> QED BY <1>1, <3>1, <3>2 DEF BackupGoesOn
  <2> QED BY <2>1, <2>2 DEF restoreVars
<1>2. CASE Upload
  BY <1>2 DEF Upload
<1>3. CASE Staged
  BY <1>3 DEF Staged
<1>4. CASE DropStaged
  BY <1>4 DEF DropStaged
<1>5. CASE Confirm
  BY <1>5 DEF Confirm
<1>6. CASE Commit
  BY <1>6 DEF Commit
<1>7. CASE SnapshotDone
  BY <1>7, SwapSnapshotDone
<1>8. CASE SnapshotFails
  BY <1>8 DEF SnapshotFails, GiveUp, WithSnapshot
<1>9. CASE Teardown
  BY <1>9 DEF Teardown
<1>10. CASE Stopped
  BY <1>10 DEF Stopped
<1>11. CASE Swap
  BY <1>11 DEF Swap, Files, RestoreGone, Volatile
<1>12. CASE SwapFails
  BY <1>12 DEF SwapFails, Files, GiveUp
<1>13. ASSUME NEW p \in Callers, CutShort(p) PROVE SwapInv'
  BY <1>13 DEF CutShort, restoreVars
<1>14. ASSUME up, Dies PROVE SwapInv'
  BY <1>14 DEF Dies, RestoreGone, Volatile
<1>15. CASE Backstop \/ RestoreCrash \/ Sigterm
  <2>1. CASE up /\ Dies
    BY <2>1, <1>14
  <2>2. CASE UNCHANGED <<backupVars, diskVars, stagingVars, restore, backstop, begun>>
    BY <2>2
  <2> QED BY <1>15, <2>1, <2>2 DEF Backstop, RestoreCrash, Sigterm
<1>16. CASE RestoreStart
  BY <1>16 DEF RestoreStart, BackupStart, WorkerStarts
<1>17. CASE UNCHANGED <<backupVars, restoreVars>>
  BY <1>17 DEF restoreVars
<1> QED
  BY <1>1, <1>2, <1>3, <1>4, <1>5, <1>6, <1>7, <1>8, <1>9, <1>10, <1>11, <1>12, <1>13,
     <1>14, <1>15, <1>16, <1>17 DEF RestoreNext

\* Wherever a restore is cut off, the next process opens the old database whole
\* or the bundle's alone with a complete snapshot of the old one beside it.
THEOREM RestoreIsAtomic == RestoreSpec => []RestoreAllOrNothing
<1>1. SwapInv => RestoreAllOrNothing
  BY DEF SwapInv
<1> QED BY <1>1, SwapInit, SwapNext, PTL DEF RestoreSpec

-----------------------------------------------------------------------------
(* The grid of slots.  Division is used by what characterises it.          *)

LEMMA DivMod ==
  ASSUME NEW a \in Int, NEW b \in Nat \ {0}
  PROVE  /\ a \div b \in Int /\ a % b \in 0..(b - 1)
         /\ a = b * (a \div b) + (a % b)
BY SMT

LEMMA Between ==
  ASSUME NEW b \in Nat \ {0}, NEW x \in Int, b * x < b, -b < b * x
  PROVE  x = 0
<1>1. CASE x >= 1
  <2>1. b * (x - 1) >= 0
    BY <1>1
  <2> QED BY <2>1
<1>2. CASE x <= -1
  <2>1. b * (-x - 1) >= 0
    BY <1>2
  <2> QED BY <2>1
<1> QED BY <1>1, <1>2

LEMMA DivModIs ==
  ASSUME NEW q \in Int, NEW b \in Nat \ {0}, NEW r \in 0..(b - 1), NEW a \in Int,
         a = b * q + r
  PROVE  a \div b = q /\ a % b = r
<1> DEFINE d == a \div b
           m == a % b
<1>1. d \in Int /\ m \in 0..(b - 1) /\ a = b * d + m
  BY DivMod
<1> HIDE DEF d, m
<1>2. b * (d - q) = r - m
  BY <1>1
<1>3. d - q = 0
  <2>1. d - q \in Int /\ b * (d - q) < b /\ -b < b * (d - q)
    BY <1>1, <1>2
  <2> QED BY <2>1, Between
<1>4. d = q /\ m = r
  BY <1>1, <1>2, <1>3
<1> QED BY <1>4 DEF d, m

LEMMA NextSlotIs ==
  ASSUME NEW t \in Nat, NEW c \in Configs
  PROVE  LET n == NextSlot(t, c.hour, c.interval)
         IN  /\ n \in Nat /\ n > t /\ n - t <= c.interval * Day
             /\ IsSlot(n, c)
             /\ \A x \in (t + 1)..(n - 1) : ~ IsSlot(x, c)
<1> DEFINE h == c.hour
           I == c.interval
           today == t \div Day
           day == IF SlotAt(today, h) > t THEN today - 1 ELSE today
           k == (day - AnchorDay) % I
           q == (day - AnchorDay) \div I
           m == day - k + I
           n == NextSlot(t, h, I)
<1>1. Day \in Nat \ {0} /\ AnchorDay \in Nat /\ I \in Nat \ {0} /\ h \in 0..(Day - 1)
  BY BackupAssumption
<1>2. today \in Int /\ Day * today <= t /\ t < Day * today + Day
  <2>1. t % Day \in 0..(Day - 1) /\ t = Day * today + (t % Day) /\ today \in Int
    BY <1>1, DivMod
  <2> HIDE DEF today
  <2> QED BY <1>1, <2>1
<1>3. day \in Int /\ Day * day + h <= t /\ t < Day * day + Day + h
  <2> HIDE DEF today, h
  <2>1. CASE SlotAt(today, h) > t
    <3>1. day = today - 1 /\ Day * (today - 1) = Day * today - Day /\ Day * today + h > t
      BY <1>1, <1>2, <2>1 DEF SlotAt
    <3> QED BY <1>1, <1>2, <3>1
  <2>2. CASE ~ (SlotAt(today, h) > t)
    <3>1. day = today /\ Day * today + h <= t
      BY <1>1, <1>2, <2>2 DEF SlotAt
    <3> QED BY <1>1, <1>2, <3>1
  <2> QED BY <2>1, <2>2
<1>4. n = Day * m + h
  <2>1. n = (day - k) * Day + h + I * Day
    BY DEF NextSlot, LastDueSlot, SlotAt
  <2>2. k \in 0..(I - 1)
    <3> HIDE DEF day, I
    <3> QED BY <1>1, <1>3, DivMod
  <2> HIDE DEF day, k, n, I, h
  <2> QED BY <1>1, <1>3, <2>1, <2>2
<1>5. q \in Int /\ k \in 0..(I - 1) /\ day - AnchorDay = I * q + k
  <2>1. day - AnchorDay \in Int
    <3> HIDE DEF day
    <3> QED BY <1>1, <1>3
  <2> HIDE DEF day, I
  <2> QED BY <1>1, <2>1, DivMod
<1>6. m \in Int /\ m - AnchorDay = I * (q + 1) /\ day < m /\ m <= day + I
  <2> HIDE DEF day, I, k, q
  <2>1. I * (q + 1) = I * q + I
    BY <1>1, <1>5
  <2> QED BY <1>1, <1>3, <1>5, <2>1
<1> HIDE DEF today, day, k, q, m, n
<1>7. n \in Nat /\ n > t /\ n - t <= I * Day
  <2> HIDE DEF h, I
  <2>1. Day * m >= Day * day + Day
    <3>1. Day * (m - (day + 1)) >= 0
      BY <1>1, <1>3, <1>6
    <3> QED BY <1>1, <1>3, <1>6, <3>1
  <2>2. Day * m <= Day * day + I * Day
    <3>1. Day * ((day + I) - m) >= 0
      BY <1>1, <1>3, <1>6
    <3> QED BY <1>1, <1>3, <1>6, <3>1
  <2>3. Day * m \in Int /\ Day * day \in Int /\ I * Day \in Int
    BY <1>1, <1>3, <1>6
  <2> QED BY <1>1, <1>3, <1>4, <2>1, <2>2, <2>3
<1>8. IsSlot(n, c)
  <2>1. n \div Day = m /\ n % Day = h
    <3> HIDE DEF h
    <3>1. n \in Int
      BY <1>7
    <3>2. Day \in Nat \ {0} /\ h \in 0..(Day - 1) /\ m \in Int /\ n = Day * m + h
      BY <1>1, <1>4, <1>6
    <3> QED BY <3>1, <3>2, DivModIs
  <2>2. (m - AnchorDay) % I = 0
    <3> DEFINE d == m - AnchorDay
               p == q + 1
    <3>1. d = I * p + 0 /\ p \in Int /\ d \in Int /\ 0 \in 0..(I - 1)
      <4> HIDE DEF I
      <4> QED BY <1>1, <1>5, <1>6
    <3> HIDE DEF d, p, I
    <3>2. d % I = 0
      BY <1>1, <3>1, DivModIs
    <3> QED BY <3>2 DEF d
  <2> QED BY <2>1, <2>2 DEF IsSlot
<1>9. ASSUME NEW x \in (t + 1)..(n - 1), IsSlot(x, c) PROVE FALSE
  <2> DEFINE e == x \div Day
             j == (e - AnchorDay) \div I
  <2>0. x \in Int /\ x > t /\ x < n
    BY <1>7
  <2>1. e \in Int /\ x = Day * e + h
    <3>1. x % Day = h
      BY <1>9 DEF IsSlot
    <3> HIDE DEF h
    <3> QED BY <1>1, <2>0, <3>1, DivMod
  <2>2. j \in Int /\ e - AnchorDay = I * j
    <3> DEFINE d == e - AnchorDay
    <3>1. d % I = 0
      BY <1>9 DEF IsSlot
    <3>2. d \in Int
      <4> HIDE DEF e
      <4> QED BY <1>1, <2>1
    <3> HIDE DEF d, I
    <3>3. d \div I \in Int /\ d = I * (d \div I) + (d % I)
      BY <1>1, <3>2, DivMod
    <3>4. d \div I \in Int /\ d = I * (d \div I)
      BY <1>1, <3>1, <3>3
    <3> QED BY <3>4 DEF d
  <2> HIDE DEF e, j, h, I
  <2>3. e < m
    <3> SUFFICES ASSUME e >= m PROVE FALSE
      BY <1>6, <2>1
    <3>1. Day * (e - m) >= 0
      BY <1>1, <1>6, <2>1
    <3>2. Day * e >= Day * m /\ Day * e \in Int /\ Day * m \in Int
      BY <1>1, <1>6, <2>1, <3>1
    <3> QED BY <1>1, <1>4, <2>0, <2>1, <3>2
  <2>4. e > day
    <3> SUFFICES ASSUME e <= day PROVE FALSE
      BY <1>3, <2>1
    <3>1. Day * (day - e) >= 0
      BY <1>1, <1>3, <2>1
    <3>2. Day * e <= Day * day /\ Day * e \in Int /\ Day * day \in Int
      BY <1>1, <1>3, <2>1, <3>1
    <3> QED BY <1>1, <1>3, <2>0, <2>1, <3>2
  <2>5. I * (q + 1 - j) > 0 /\ I * (q + 1 - j) < I
    <3>1. I * (q + 1 - j) = m - e
      BY <1>1, <1>5, <1>6, <2>1, <2>2
    <3> QED BY <1>1, <1>3, <1>5, <1>6, <2>1, <2>3, <2>4, <3>1
  <2>6. q + 1 - j \in Int /\ q + 1 - j = 0
    <3>1. q + 1 - j \in Int
      BY <1>5, <2>2
    <3>2. I * (q + 1 - j) < I /\ -I < I * (q + 1 - j)
      BY <1>1, <2>5, <3>1
    <3> QED BY <1>1, <3>1, <3>2, Between
  <2> QED BY <1>1, <2>5, <2>6
<1> QED BY <1>7, <1>8, <1>9 DEF n

-----------------------------------------------------------------------------
(* The schedule's timer.                                                   *)

\* Every schedule that may be set fits the delay setTimeout can hold.
TimersFit == \A c \in Configs : c.interval * Day <= TimerLimit

\* t is the first slot of c from time n on.
FirstSlot(n, c, t) ==
  /\ t >= n /\ IsSlot(t, c)
  /\ \A x \in (n + 1)..(t - 1) : ~ IsSlot(x, c)

Armed(n, c, t) == IF c.enabled THEN FirstSlot(n, c, t) ELSE t = NoTimer

\* Runs exclude one another and a restore; the worker is stopped, or nothing
\* runs, once the database is closed.
OneRun ==
  /\ job \in [Callers -> Stages]
  /\ ~ running => \A p \in Callers : job[p] = "idle"
  /\ \A p, q \in Callers : job[p] # "idle" /\ job[q] # "idle" => p = q
  /\ backstop => running /\ \A p \in Callers : job[p] = "idle"
  /\ restore.at \in {"snapshot", "stop", "swap"} => backstop
  /\ wal # "holds" => \/ ~ up
                      \/ stopped
                      \/ \A p \in Callers : job[p] = "idle"
  /\ stopped => up /\ wal # "holds"

TimerInv ==
  /\ now \in Nat /\ config \in Configs /\ timer \in {NoTimer} \cup Nat
  /\ OneRun
  /\ up /\ ~ stopped /\ job["schedule"] = "idle" => Armed(now, config, timer)

LEMMA ArmedRight ==
  ASSUME TimersFit, now \in Nat, NEW c \in Configs
  PROVE  Armed(now, c, ArmedTimer(c)) /\ ArmedTimer(c) \in {NoTimer} \cup Nat
<1> DEFINE n == NextSlot(now, c.hour, c.interval)
<1>1. /\ n \in Nat /\ n > now /\ n - now <= c.interval * Day /\ IsSlot(n, c)
      /\ \A x \in (now + 1)..(n - 1) : ~ IsSlot(x, c)
  BY NextSlotIs
<1>2. c.interval * Day <= TimerLimit /\ c.interval * Day \in Int /\ TimerLimit \in Int
  BY BackupAssumption DEF TimersFit
<1> HIDE DEF n
<1>3. ~ (n - now > TimerLimit)
  BY <1>1, <1>2
<1>4. ArmedTimer(c) = IF ~ c.enabled THEN NoTimer ELSE n
  BY <1>3 DEF ArmedTimer, n
<1> QED BY <1>1, <1>4 DEF Armed, FirstSlot

LEMMA OneRunInit == RestoreInit => OneRun
BY DEF RestoreInit, BackupInit, OneRun, Callers, Stages, Idle

\* Where runs go on the database is open, and then nothing of a restore is
\* under way that has taken the flag.
LEMMA OneRunGoesOn == ASSUME OneRun, BackupGoesOn PROVE OneRun'
<1> USE DEF OneRun, restoreVars, diskVars, stagingVars, Callers, Stages
<1>0. wal = "holds" /\ wal' = wal /\ UNCHANGED <<restore, backstop>>
  BY DEF BackupGoesOn
<1>1. ASSUME NEW p \in Callers, Copied(p) \/ KeyDone(p) \/ Land(p) PROVE OneRun'
  <2>1. /\ UNCHANGED <<up, stopped, running>> /\ job[p] # "idle"
        /\ \E s \in Stages : s # "idle" /\ job' = [job EXCEPT ![p] = s]
    BY <1>1 DEF Copied, KeyDone, Step, Land, scheduleVars
  <2> QED BY <1>0, <2>1
<1>2. ASSUME NEW p \in Callers, Delivered(p) \/ RunFails(p) PROVE OneRun'
  <2>1. /\ UNCHANGED <<up, stopped>> /\ job[p] # "idle"
        /\ running' = FALSE /\ job' = [job EXCEPT ![p] = "idle"]
    BY <1>2 DEF Delivered, RunFails, Finish
  <2> QED BY <1>0, <2>1
<1>3. ASSUME NEW p \in Callers, Begin(p), UNCHANGED <<up, stopped>> PROVE OneRun'
  <2>1. CASE running
    BY <1>0, <1>3, <2>1 DEF Begin
  <2>2. CASE ~ running
    <3>1. /\ running' = TRUE /\ ~ backstop
          /\ job' = [job EXCEPT ![p] = "copy"] \/ job' = job
      BY <1>3, <2>2 DEF Begin
    <3> QED BY <1>0, <1>3, <2>2, <3>1
  <2> QED BY <2>1, <2>2
<1>4. CASE TimerFires \/ CatchUpFires \/ BackupNow
  <2>1. UNCHANGED <<up, stopped>> /\ \E p \in Callers : Begin(p)
    BY <1>4 DEF TimerFires, CatchUpFires, BackupNow, scheduleVars
  <2> QED BY <1>3, <2>1
<1>5. CASE SetConfig \/ Tick
  <2>1. UNCHANGED <<up, stopped, job, running>>
    BY <1>5 DEF SetConfig, Tick, runVars
  <2> QED BY <1>0, <2>1
<1> QED BY <1>1, <1>2, <1>4, <1>5 DEF BackupGoesOn, RunStep

LEMMA OneRunDies == ASSUME RestoreGone PROVE OneRun'
BY DEF RestoreGone, Volatile, OneRun, Idle, Callers, Stages

LEMMA OneRunNext ==
  SwapInv /\ OneRun /\ [RestoreNext]_<<backupVars, restoreVars>> => OneRun'
<1> SUFFICES ASSUME SwapInv, OneRun,
    [RestoreNext]_<<backupVars, restoreVars>> PROVE OneRun'
  OBVIOUS
<1> USE DEF OneRun, Handler, backupVars, scheduleVars, runVars, diskVars, stagingVars
<1>0. restore \in [at : {"idle", "unpack", "told", "snapshot", "stop", "swap"},
      id : Nat]
  BY DEF SwapInv
<1>1. CASE BackupGoesOn
  BY <1>1, OneRunGoesOn
<1>2. CASE Upload \/ Staged \/ DropStaged \/ Confirm
  <2>1. /\ UNCHANGED <<backupVars, diskVars, backstop>>
        /\ restore'.at \in {"idle", "unpack", "told"} \/ restore' = restore
    BY <1>2 DEF Upload, Staged, DropStaged, Confirm, Idle
  <2> QED BY <2>1
<1>3. CASE Commit
  <2>1. CASE running
    BY <1>3, <2>1 DEF Commit, Idle
  <2>2. CASE ~ running
    <3>1. running' = TRUE /\ backstop' = TRUE /\ UNCHANGED <<job, up, stopped, wal>>
      BY <1>3, <2>2 DEF Commit
    <3> QED BY <2>2, <3>1
  <2> QED BY <2>1, <2>2
<1>4. CASE SnapshotDone
  <2>1. /\ UNCHANGED <<up, stopped, running, job, wal, backstop>> /\ restore.at = "snapshot"
    BY <1>4 DEF SnapshotDone
  <2> QED BY <2>1
<1>5. CASE SnapshotFails
  BY <1>5 DEF SnapshotFails, GiveUp, Idle
<1>6. CASE Teardown
  BY <1>6 DEF Teardown
<1>7. CASE Stopped
  <2>1. /\ UNCHANGED <<up, stopped, running, job, wal, backstop>> /\ restore.at = "stop"
    BY <1>7 DEF Stopped
  <2> QED BY <2>1
<1>8. CASE Swap
  BY <1>8, OneRunDies DEF Swap
<1>9. CASE SwapFails
  <2>1. /\ UNCHANGED <<up, stopped, running, job, backstop>> /\ restore.at = "swap"
        /\ wal' = "gone" /\ restore' = Idle
    BY <1>9 DEF SwapFails, GiveUp, Files
  <2> QED BY <2>1 DEF Idle
<1>10. ASSUME NEW p \in Callers, CutShort(p) PROVE OneRun'
  <2>1. /\ UNCHANGED <<up, stopped, backstop, restore, wal>> /\ job[p] # "idle"
        /\ running' = FALSE /\ job' = [job EXCEPT ![p] = "idle"]
    BY <1>10 DEF CutShort, restoreVars
  <2> QED BY <2>1 DEF Callers, Stages
<1>11. CASE Backstop \/ RestoreCrash \/ Sigterm
  <2>1. CASE Dies
    BY <2>1, OneRunDies DEF Dies
  <2>2. CASE UNCHANGED <<backupVars, diskVars, stagingVars, restore, backstop>>
    BY <2>2
  <2> QED BY <1>11, <2>1, <2>2 DEF Backstop, RestoreCrash, Sigterm
<1>12. CASE RestoreStart
  <2>1. /\ ~ up /\ up' = TRUE /\ wal' = "holds"
        /\ UNCHANGED <<stopped, running, job, backstop, restore>>
    BY <1>12 DEF RestoreStart, BackupStart, WorkerStarts
  <2> QED BY <2>1
<1>13. CASE UNCHANGED <<backupVars, restoreVars>>
  BY <1>13 DEF restoreVars
<1> QED
  BY <1>1, <1>2, <1>3, <1>4, <1>5, <1>6, <1>7, <1>8, <1>9, <1>10, <1>11, <1>12, <1>13
     DEF RestoreNext

-----------------------------------------------------------------------------

LEMMA TimerInit == RestoreInit => TimerInv
BY OneRunInit DEF RestoreInit, BackupInit, TimerInv

LEMMA TimerGoesOn == ASSUME TimersFit, TimerInv, BackupGoesOn, OneRun' PROVE TimerInv'
<1> USE DEF TimerInv
<1>0. /\ Armed(now, config, ArmedTimer(config)) /\ ArmedTimer(config) \in {NoTimer} \cup Nat
      /\ job \in [Callers -> Stages]
  BY ArmedRight DEF OneRun
<1>1. ASSUME NEW p \in Callers, Copied(p) \/ KeyDone(p) \/ Land(p) PROVE TimerInv'
  <2>1. /\ UNCHANGED <<up, stopped, config, now, timer>> /\ job[p] # "idle"
        /\ \E s \in Stages : s # "idle" /\ job' = [job EXCEPT ![p] = s]
    BY <1>1 DEF Copied, KeyDone, Step, Land, scheduleVars, Stages
  <2>2. job'["schedule"] = "idle" => job["schedule"] = "idle"
    BY <1>0, <2>1 DEF Callers
  <2> QED BY <2>1, <2>2
<1>2. ASSUME NEW p \in Callers, Delivered(p) \/ RunFails(p) PROVE TimerInv'
  <2>1. /\ UNCHANGED <<up, stopped, config, now>> /\ job' = [job EXCEPT ![p] = "idle"]
        /\ timer' = IF p = "schedule" THEN ArmedTimer(config) ELSE timer
    BY <1>2 DEF Delivered, RunFails, Finish
  <2>2. p # "schedule" => job'["schedule"] = job["schedule"]
    BY <1>0, <2>1 DEF Callers
  <2> QED BY <1>0, <2>1, <2>2
<1>3. CASE TimerFires
  <2>1. UNCHANGED <<up, stopped, config, now>>
    BY <1>3 DEF TimerFires
  <2>2. CASE job' = job
    BY <1>0, <1>3, <2>1, <2>2 DEF TimerFires
  <2>3. CASE job' # job
    <3>1. timer' = NoTimer /\ job' = [job EXCEPT !["schedule"] = "copy"]
      BY <1>3, <2>3 DEF TimerFires, Begin
    <3>2. job'["schedule"] = "copy"
      BY <1>0, <3>1 DEF Callers
    <3> QED BY <2>1, <3>1, <3>2
  <2> QED BY <2>2, <2>3
<1>4. CASE CatchUpFires \/ BackupNow
  <2>1. /\ UNCHANGED <<up, stopped, config, now, timer>>
        /\ \E p \in {"catchUp", "admin"} : job' = job \/ job' = [job EXCEPT ![p] = "copy"]
    BY <1>4 DEF CatchUpFires, BackupNow, Begin, scheduleVars
  <2>2. job'["schedule"] = job["schedule"]
    BY <1>0, <2>1 DEF Callers
  <2> QED BY <2>1, <2>2
<1>5. CASE SetConfig
  <2>1. /\ config' \in Configs /\ timer' = ArmedTimer(config')
        /\ UNCHANGED <<now, up, stopped, job>>
    BY <1>5 DEF SetConfig, PutConfig, runVars
  <2>2. Armed(now, config', ArmedTimer(config')) /\ ArmedTimer(config') \in {NoTimer} \cup Nat
    BY <2>1, ArmedRight
  <2> QED BY <2>1, <2>2
<1>6. CASE Tick
  <2>1. /\ now' = now + 1 /\ UNCHANGED <<config, timer, stopped, job, up>>
        /\ up => timer = NoTimer \/ timer > now
    BY <1>6 DEF Tick, runVars
  <2>2. ASSUME up, Armed(now, config, timer) PROVE Armed(now + 1, config, timer)
    BY <2>1, <2>2 DEF Armed, FirstSlot, NoTimer
  <2> QED BY <2>1, <2>2
<1> QED BY <1>1, <1>2, <1>3, <1>4, <1>5, <1>6 DEF BackupGoesOn, RunStep

LEMMA TimerNext ==
  ASSUME TimersFit
  PROVE  SwapInv /\ TimerInv /\ [RestoreNext]_<<backupVars, restoreVars>> => TimerInv'
<1> SUFFICES ASSUME SwapInv, TimerInv,
    [RestoreNext]_<<backupVars, restoreVars>> PROVE TimerInv'
  OBVIOUS
<1> USE DEF TimerInv, Handler
<1>0. OneRun'
  BY OneRunNext
<1>1. CASE BackupGoesOn
  BY <1>0, <1>1, TimerGoesOn
<1>2. CASE UNCHANGED <<up, stopped, config, now, timer, job>>
  BY <1>0, <1>2
<1>3. CASE Upload \/ Staged \/ DropStaged \/ Confirm \/ SnapshotDone \/ SnapshotFails
           \/ Stopped \/ SwapFails
  BY <1>2, <1>3 DEF Upload, Staged, DropStaged, Confirm, SnapshotDone, SnapshotFails,
     GiveUp,
     Stopped, SwapFails, backupVars, scheduleVars, runVars
<1>4. CASE Commit
  BY <1>2, <1>4 DEF Commit, scheduleVars
<1>5. CASE Teardown
  BY <1>0, <1>5 DEF Teardown
<1>6. ASSUME RestoreGone, config' \in Configs PROVE TimerInv'
  BY <1>0, <1>6 DEF RestoreGone, Volatile
<1>7. CASE Swap
  <2>1. RestoreGone /\ (config' \in Configs \/ config' = config)
    BY <1>7 DEF Swap
  <2> QED BY <1>6, <2>1
<1>8. CASE Backstop \/ RestoreCrash \/ Sigterm
  <2>1. CASE Dies
    BY <1>6, <2>1 DEF Dies
  <2>2. CASE UNCHANGED backupVars
    BY <1>2, <2>2 DEF backupVars, scheduleVars, runVars
  <2> QED BY <1>8, <2>1, <2>2 DEF Backstop, RestoreCrash, Sigterm
<1>9. ASSUME NEW p \in Callers, CutShort(p) PROVE TimerInv'
  <2>1. /\ UNCHANGED <<up, stopped, config, now, timer>> /\ up /\ stopped
    BY <1>9 DEF CutShort, OneRun, scheduleVars
  <2> QED BY <1>0, <2>1
<1>10. CASE RestoreStart
  <2>1. timer' = ArmedTimer(config) /\ UNCHANGED <<config, now>>
    BY <1>10 DEF RestoreStart, BackupStart, WorkerStarts
  <2>2. Armed(now, config, ArmedTimer(config)) /\ ArmedTimer(config) \in {NoTimer} \cup Nat
    BY ArmedRight
  <2> QED BY <1>0, <2>1, <2>2
<1>11. CASE UNCHANGED <<backupVars, restoreVars>>
  BY <1>2, <1>11 DEF backupVars, scheduleVars, runVars
<1> QED
  BY <1>1, <1>3, <1>4, <1>5, <1>7, <1>8, <1>9, <1>10, <1>11 DEF RestoreNext

\* While the process serves, the timer stands at the first slot of the
\* schedule in force, for any schedules that setTimeout can hold, with restores,
\* crashes, failing runs and a closed database in between.
THEOREM TimerArmed == ASSUME TimersFit PROVE RestoreSpec => []ArmedForConfig
<1>1. RestoreInit => SwapInv /\ TimerInv
  BY SwapInit, TimerInit
<1>2. SwapInv /\ TimerInv /\ [RestoreNext]_<<backupVars, restoreVars>> => (SwapInv /\ TimerInv)'
  BY SwapNext, TimerNext
<1>3. TimerInv => ArmedForConfig
  BY DEF TimerInv, Armed, FirstSlot, ArmedForConfig
<1> QED BY <1>1, <1>2, <1>3, PTL DEF RestoreSpec

\* Only the timer begins a scheduled run.
LEMMA ScheduledStart ==
  ASSUME [RestoreNext]_<<backupVars, restoreVars>>, job \in [Callers -> Stages],
         job["schedule"] = "idle", job'["schedule"] # "idle"
  PROVE  TimerFires /\ wal = "holds"
<1> USE DEF Callers, runVars, backupVars, scheduleVars
<1>1. CASE BackupGoesOn
  <2>1. ASSUME NEW p \in Callers, RunStep(p) PROVE FALSE
    <3>1. job[p] # "idle" /\ \E s \in STRING : job' = [job EXCEPT ![p] = s]
      BY <2>1 DEF RunStep, Copied, KeyDone, Step, Land, Delivered, RunFails, Finish
    <3> QED BY <3>1
  <2>2. ASSUME CatchUpFires \/ BackupNow \/ SetConfig \/ Tick PROVE FALSE
    <3>1. \E p \in {"catchUp", "admin"} : job' = job \/ job' = [job EXCEPT ![p] = "copy"]
      BY <2>2 DEF CatchUpFires, BackupNow, SetConfig, Tick, Begin
    <3> QED BY <3>1
  <2> QED BY <1>1, <2>1, <2>2 DEF BackupGoesOn
<1>2. CASE UNCHANGED job
  BY <1>2
<1>3. CASE RestoreGone
  BY <1>3 DEF RestoreGone, Volatile
<1>4. CASE Upload \/ Staged \/ DropStaged \/ Confirm \/ SnapshotDone \/ SnapshotFails
           \/ Stopped \/ SwapFails
  BY <1>2, <1>4 DEF Upload, Staged, DropStaged, Confirm, SnapshotDone, SnapshotFails,
     GiveUp,
     Stopped, SwapFails
<1>5. CASE Commit \/ Teardown \/ RestoreStart
  BY <1>2, <1>5 DEF Commit, Teardown, RestoreStart, BackupStart
<1>6. CASE Swap \/ Backstop \/ RestoreCrash \/ Sigterm
  BY <1>2, <1>3, <1>6 DEF Swap, Backstop, RestoreCrash, Sigterm, Dies
<1>7. ASSUME NEW p \in Callers, CutShort(p) PROVE FALSE
  BY <1>7 DEF CutShort
<1>8. CASE UNCHANGED <<backupVars, restoreVars>>
  BY <1>2, <1>8
<1> QED BY <1>1, <1>4, <1>5, <1>6, <1>7, <1>8 DEF RestoreNext

\* Under the same schedules a run of the timer begins in a slot, and nowhere
\* else: the complement of what a longer interval makes it do.
THEOREM RunsInSlots == ASSUME TimersFit PROVE RestoreSpec => OnSchedule
<1>1. RestoreInit => SwapInv /\ TimerInv
  BY SwapInit, TimerInit
<1>2. SwapInv /\ TimerInv /\ [RestoreNext]_<<backupVars, restoreVars>> => (SwapInv /\ TimerInv)'
  BY SwapNext, TimerNext
<1>3. TimerInv /\ [RestoreNext]_<<backupVars, restoreVars>>
        => [job["schedule"] = "idle" /\ job'["schedule"] # "idle" => IsSlot(now, config)]_backupVars
  <2> SUFFICES ASSUME TimerInv, [RestoreNext]_<<backupVars, restoreVars>>,
                      job["schedule"] = "idle", job'["schedule"] # "idle"
               PROVE  IsSlot(now, config)
    OBVIOUS
  <2>0. job \in [Callers -> Stages]
    BY DEF TimerInv, OneRun
  <2>1. TimerFires /\ wal = "holds"
    BY <2>0, ScheduledStart
  <2>2. up /\ ~ stopped /\ timer # NoTimer /\ timer <= now
    BY <2>1 DEF TimerInv, OneRun, TimerFires
  <2>3. Armed(now, config, timer) /\ now \in Nat /\ timer \in Nat
    BY <2>2 DEF TimerInv
  <2>4. FirstSlot(now, config, timer)
    BY <2>2, <2>3 DEF Armed
  <2>5. timer = now
    BY <2>2, <2>3, <2>4 DEF FirstSlot
  <2> QED BY <2>4, <2>5 DEF FirstSlot
<1> QED BY <1>1, <1>2, <1>3, PTL DEF RestoreSpec, OnSchedule

-----------------------------------------------------------------------------
(* Type correctness.                                                       *)

Handlings ==
  [at : {"idle", "unpack", "told", "snapshot", "stop", "swap"}, id : 0..MaxStaged]

\* While the database is open there is an open row for the run under way and
\* none besides; what is not up runs nothing; a snapshot is that of a restore.
RowsInv ==
  /\ ~ up => ~ running
  /\ up /\ wal = "holds" => openRows = IF \A p \in Callers : job[p] = "idle" THEN 0 ELSE 1
  /\ restore.at = "snapshot" => begun # 0

RestoreTyped == BackupTypeOK /\ RestoreTypeOK /\ RowsInv

LEMMA RestoreTypedInit == RestoreInit => RestoreTyped
<1> SUFFICES ASSUME RestoreInit PROVE RestoreTyped
  OBVIOUS
<1> USE DEF RestoreInit, BackupInit, Idle, Callers, Stages
<1>1. BackupTypeOK
  <2>1. 0 \in 0..Horizon /\ 0 \in 0..MaxMade
    BY BackupAssumption
  <2>2. bundles \subseteq [label : Labels, stamp : 1..MaxMade]
    OBVIOUS
  <2>3. /\ up \in BOOLEAN /\ catchUp \in BOOLEAN /\ stopped \in BOOLEAN /\ running \in BOOLEAN
        /\ alarm \in BOOLEAN
    BY Zenon
  <2>4. job \in [Callers -> Stages] /\ config \in Configs /\ label \in Labels
    OBVIOUS
  <2>5. openRows \in 0..1
    OBVIOUS
  <2> QED BY <2>1, <2>2, <2>3, <2>4, <2>5 DEF BackupTypeOK
<1>2. RestoreTypeOK
  <2>1. 0 \in 0..MaxStaged /\ 0 \in 0..MaxRestores
    BY RestoreAssumption
  <2>2. restore \in Handlings
    BY <2>1 DEF Handlings
  <2> QED BY <2>1, <2>2 DEF RestoreTypeOK, Handlings
<1> QED BY <1>1, <1>2 DEF RestoreTyped, RowsInv

LEMMA ArmedIsTime ==
  ASSUME now \in Nat, NEW c \in Configs
  PROVE  ArmedTimer(c) \in {NoTimer} \cup Nat
<1> DEFINE n == NextSlot(now, c.hour, c.interval)
<1>1. n \in Nat
  BY NextSlotIs
<1> HIDE DEF n
<1>2. ArmedTimer(c) \in {NoTimer, now, n}
  BY DEF ArmedTimer, n
<1> QED BY <1>1, <1>2

\* A run moves on, ends, or begins.
LEMMA RunTyped ==
  ASSUME RestoreTyped, OneRun, BackupGoesOn
  PROVE  BackupTypeOK' /\ RowsInv'
<1> USE DEF RestoreTyped, BackupTypeOK, RowsInv, Callers, Stages, restoreVars,
        diskVars
<1>0. /\ wal = "holds" /\ UNCHANGED <<restore, begun, wal>>
      /\ now \in Nat /\ ArmedTimer(config) \in {NoTimer} \cup Nat
  BY BackupAssumption, ArmedIsTime DEF BackupGoesOn
<1>1. ASSUME NEW p \in Callers,
             Copied(p) \/ KeyDone(p) PROVE BackupTypeOK' /\ RowsInv'
  <2>1. /\ UNCHANGED <<scheduleVars, running, openRows, lastDone, bundles, landed, minute, alarm, up, label>>
        /\ up /\ job[p] # "idle"
        /\ \E s \in Stages : s # "idle" /\ job' = [job EXCEPT ![p] = s]
    BY <1>1 DEF Copied, KeyDone, Step
  <2> QED BY <1>0, <2>1 DEF scheduleVars
<1>2. ASSUME NEW p \in Callers, Land(p) PROVE BackupTypeOK' /\ RowsInv'
  <2> DEFINE new == [label |-> label, stamp |-> minute']
  <2>1. /\ UNCHANGED <<scheduleVars, running, openRows, lastDone, alarm, up, label>>
        /\ up /\ job[p] # "idle" /\ minute' \in 1..MaxMade
        /\ job' = [job EXCEPT ![p] = "send"]
        /\ bundles' \subseteq bundles \cup {new} /\ landed' = landed \cup {new}
    BY <1>2 DEF Land
  <2>2. minute' \in 0..MaxMade /\ new \in [label : Labels, stamp : 1..MaxMade]
    BY <2>1, BackupAssumption
  <2> HIDE DEF new
  <2> QED BY <1>0, <2>1, <2>2 DEF scheduleVars
<1>3. ASSUME NEW p \in Callers,
             Delivered(p) \/ RunFails(p) PROVE BackupTypeOK' /\ RowsInv'
  <2>1. /\ UNCHANGED <<config, now, catchUp, stopped, bundles, landed, minute, up, label>>
        /\ up /\ job[p] # "idle" /\ running' = FALSE
        /\ job' = [job EXCEPT ![p] = "idle"] /\ openRows' = openRows - 1
        /\ lastDone' \in {lastDone, now} /\ alarm' \in {alarm, TRUE, FALSE}
        /\ timer' \in {timer, ArmedTimer(config)}
    BY <1>3 DEF Delivered, RunFails, Finish
  <2>2. openRows = 1
    BY <1>0, <2>1
  <2>3. \A q \in Callers : job'[q] = "idle"
    BY <2>1 DEF OneRun
  <2>4. openRows' = 0 /\ job' \in [Callers -> Stages]
    BY <2>1, <2>2
  <2>5. lastDone' \in {Never} \cup 0..Horizon /\ timer' \in {NoTimer} \cup Nat
    BY <1>0, <2>1
  <2>6. alarm' \in BOOLEAN /\ running' \in BOOLEAN
    BY <2>1, Zenon
  <2>7. UNCHANGED <<config, now, catchUp, stopped, bundles, landed, minute, up, label>>
    BY <2>1
  <2>8. BackupTypeOK'
    BY <2>4, <2>5, <2>6, <2>7
  <2> QED BY <1>0, <2>1, <2>3, <2>4, <2>8
<1>4. ASSUME NEW p \in Callers, Begin(p), up,
             UNCHANGED <<config, now, stopped, lastDone, bundles, landed, minute, alarm, up, label>>,
             timer' \in {timer, NoTimer, ArmedTimer(config)},
             catchUp' \in {catchUp, FALSE}
      PROVE  BackupTypeOK' /\ RowsInv'
  <2>1. CASE running
    BY <1>0, <1>4, <2>1 DEF Begin
  <2>2. CASE ~ running
    <3>1. /\ running' = TRUE /\ openRows = 0 /\ \A q \in Callers : job[q] = "idle"
          /\ \/ job' = [job EXCEPT ![p] = "copy"] /\ openRows' = openRows + 1
             \/ UNCHANGED <<job, openRows>>
      BY <1>0, <1>4, <2>2 DEF Begin, OneRun
    <3>2. /\ job' \in [Callers -> Stages]
          /\ openRows' = IF \A q \in Callers : job'[q] = "idle" THEN 0 ELSE 1
      BY <3>1
    <3>3. catchUp' \in BOOLEAN /\ running' \in BOOLEAN
      BY <1>4, <3>1, Zenon
    <3>4. UNCHANGED <<config, now, stopped, lastDone, bundles, landed, minute, alarm, up, label>>
      BY <1>4
    <3>5. timer' \in {NoTimer} \cup Nat
      BY <1>0, <1>4
    <3>6. BackupTypeOK'
      BY <3>2, <3>3, <3>4, <3>5
    <3> QED BY <1>0, <1>4, <3>1, <3>2, <3>6
  <2> QED BY <2>1, <2>2
<1>5. CASE TimerFires \/ CatchUpFires \/ BackupNow
  BY <1>4, <1>5 DEF TimerFires, CatchUpFires, BackupNow, scheduleVars
<1>6. CASE SetConfig
  <2>1. /\ config' \in Configs /\ timer' = ArmedTimer(config')
        /\ UNCHANGED <<now, catchUp, stopped, runVars, up, label>>
    BY <1>6 DEF SetConfig, PutConfig
  <2>2. timer' \in {NoTimer} \cup Nat
    BY <1>0, <2>1, ArmedIsTime
  <2> QED BY <1>0, <2>1, <2>2 DEF runVars
<1>7. CASE Tick
  <2>1. /\ now < Horizon /\ now' = now + 1
        /\ UNCHANGED <<config, timer, catchUp, stopped, runVars, up, label>>
    BY <1>7 DEF Tick
  <2>2. now' \in 0..Horizon
    BY <2>1, BackupAssumption
  <2> QED BY <1>0, <2>1, <2>2 DEF runVars
<1> QED BY <1>1, <1>2, <1>3, <1>5, <1>6, <1>7 DEF BackupGoesOn, RunStep

\* What staging and confirming do to the handler and its bundles.
LEMMA StagingTyped ==
  ASSUME RestoreTyped, Upload \/ Staged \/ DropStaged \/ Confirm
  PROVE  RestoreTyped'
<1> USE DEF RestoreTypeOK, Handlings
<1>1. UNCHANGED <<backupVars, diskVars, backstop, teardown, begun>>
  BY DEF Upload, Staged, DropStaged, Confirm
<1>2. BackupTypeOK'
  BY <1>1 DEF RestoreTyped, BackupTypeOK, backupVars, scheduleVars, runVars
<1>3. restore'.at # "snapshot" \/ restore' = restore
  BY DEF Upload, Staged, DropStaged, Confirm, Idle
<1>4. RowsInv'
  BY <1>1, <1>3 DEF RestoreTyped, RowsInv, backupVars, scheduleVars, runVars, diskVars
<1>5. RestoreTypeOK
  BY DEF RestoreTyped
<1>6. CASE Upload
  <2>1. sent + 1 \in 1..MaxStaged
    BY <1>5, <1>6, RestoreAssumption DEF Upload
  <2>2. restore' \in Handlings
    BY <1>6, <2>1 DEF Upload
  <2>3. sent' = sent + 1 /\ staged' = 0 /\ dirs' = (dirs \ {staged}) \cup {sent + 1}
    BY <1>6 DEF Upload
  <2>4. sent' \in 0..MaxStaged /\ staged' \in 0..MaxStaged /\ dirs' \subseteq 1..MaxStaged
    BY <1>5, <2>1, <2>3, RestoreAssumption
  <2>5. RestoreTypeOK'
    BY <1>1, <1>5, <2>2, <2>4 DEF diskVars
  <2> QED BY <1>2, <1>4, <2>5 DEF RestoreTyped
<1>7. CASE Staged \/ DropStaged \/ Confirm
  <2>1. 0 \in 0..MaxStaged /\ restore.id \in 0..MaxStaged
    BY <1>5, RestoreAssumption
  <2>2. restore' \in Handlings
    BY <1>5, <1>7, <2>1 DEF Staged, DropStaged, Confirm, Idle
  <2>3. staged' \in 0..MaxStaged /\ dirs' \subseteq dirs /\ sent' = sent
    BY <1>5, <1>7, <2>1 DEF Staged, DropStaged, Confirm, stagingVars
  <2>4. RestoreTypeOK'
    BY <1>1, <1>5, <2>2, <2>3 DEF diskVars
  <2> QED BY <1>2, <1>4, <2>4 DEF RestoreTyped
<1> QED BY <1>6, <1>7

\* The handler goes on to stage s, from one that is not the snapshot or after it.
LEMMA HandlerTyped ==
  ASSUME RestoreTypeOK, NEW s \in {"idle", "snapshot", "stop", "swap"},
         restore' = [restore EXCEPT !.at = s]
  PROVE  restore' \in Handlings /\ restore'.at = s
<1>1. restore \in Handlings
  BY DEF RestoreTypeOK, Handlings
<1> QED BY <1>1 DEF Handlings

LEMMA IdleTyped == Idle \in Handlings
<1>1. 0 \in 0..MaxStaged
  BY RestoreAssumption
<1> QED BY <1>1 DEF Idle, Handlings

\* The steps of commitRestore before its swap.
LEMMA CommitTyped ==
  ASSUME RestoreTyped, OneRun,
         Commit \/ SnapshotDone \/ SnapshotFails \/ Teardown \/ Stopped
  PROVE  RestoreTyped'
<1>1. RestoreTypeOK /\ BackupTypeOK /\ RowsInv
  BY DEF RestoreTyped
<1> USE DEF Handler
<1>2. CASE Commit
  <2>1. CASE running
    <3>1. /\ UNCHANGED <<scheduleVars, job, running, openRows, lastDone, bundles, landed, minute, alarm, up,
                         label, diskVars, stagingVars, teardown, backstop, begun>>
          /\ restore' = Idle
      BY <1>2, <2>1 DEF Commit
    <3>2. BackupTypeOK'
      BY <1>1, <3>1 DEF BackupTypeOK, scheduleVars
    <3>3. RestoreTypeOK'
      BY <1>1, <3>1, IdleTyped DEF RestoreTypeOK, Handlings, diskVars, stagingVars
    <3>4. RowsInv'
      BY <1>1, <3>1 DEF RowsInv, diskVars, Idle
    <3> QED BY <3>2, <3>3, <3>4 DEF RestoreTyped
  <2>2. CASE ~ running
    <3>1. /\ UNCHANGED <<scheduleVars, job, openRows, lastDone, bundles, landed, minute, alarm, up, label,
                         diskVars, stagingVars, teardown>>
          /\ running' = TRUE /\ backstop' = TRUE /\ begun' = begun + 1 /\ begun < MaxRestores
          /\ up /\ restore' = [restore EXCEPT !.at = "snapshot"]
      BY <1>2, <2>2 DEF Commit
    <3>2. BackupTypeOK'
      BY <1>1, <3>1 DEF BackupTypeOK, scheduleVars
    <3>3. begun' \in 0..MaxRestores /\ begun' # 0
      BY <1>1, <3>1, RestoreAssumption DEF RestoreTypeOK, Handlings
    <3>4. RestoreTypeOK'
      BY <1>1, <3>1, <3>3, HandlerTyped DEF RestoreTypeOK, Handlings, diskVars, stagingVars
    <3>5. RowsInv'
      BY <1>1, <3>1, <3>3 DEF RowsInv, diskVars
    <3> QED BY <3>2, <3>4, <3>5 DEF RestoreTyped
  <2> QED BY <2>1, <2>2
<1>3. CASE SnapshotDone \/ SnapshotFails
  <2>1. /\ UNCHANGED <<backupVars, stagingVars, backstop, begun, file, wal, marker>>
        /\ \E b \in BOOLEAN, m \in 1..begun :
             snapshots' \subseteq snapshots \cup {[stamp |-> m, of |-> begun, whole |-> b]}
        /\ teardown' \in {teardown, "running"}
        /\ restore.at = "snapshot"
    <3>1. begun \in 1..MaxRestores /\ restore.at = "snapshot"
      <4>1. restore.at = "snapshot"
        BY <1>3 DEF SnapshotDone, SnapshotFails
      <4>2. begun \in 0..MaxRestores /\ begun # 0
        BY <1>1, <4>1 DEF RestoreTypeOK, RowsInv
      <4> QED BY <4>1, <4>2, RestoreAssumption
    <3>2. CASE SnapshotDone
      <4>1. PICK m \in 1..begun :
              LET all == {t \in snapshots : t.stamp # m}
                           \cup {[stamp |-> m, of |-> begun, whole |-> TRUE]}
              IN  snapshots' = {s \in all : Cardinality({t \in all : t.stamp > s.stamp}) < PreKeep}
        BY <3>2 DEF SnapshotDone, WithSnapshot
      <4>2. snapshots' \subseteq snapshots \cup {[stamp |-> m, of |-> begun, whole |-> TRUE]}
        BY <4>1
      <4> QED BY <3>1, <3>2, <4>2 DEF SnapshotDone
    <3>3. CASE SnapshotFails
      <4>1. \/ snapshots' = snapshots
            \/ \E m \in 1..begun :
                 snapshots' = {t \in snapshots : t.stamp # m}
                                \cup {[stamp |-> m, of |-> begun, whole |-> FALSE]}
        BY <3>3 DEF SnapshotFails, WithSnapshot
      <4>2. \E m \in 1..begun :
              snapshots' \subseteq snapshots \cup {[stamp |-> m, of |-> begun, whole |-> FALSE]}
        BY <3>1, <4>1
      <4> QED BY <3>1, <3>3, <4>2 DEF SnapshotFails, GiveUp
    <3> QED BY <1>3, <3>2, <3>3
  <2>2. restore' = Idle \/ restore' = [restore EXCEPT !.at = "stop"]
    BY <1>3 DEF SnapshotDone, SnapshotFails, GiveUp
  <2>3. begun \in 1..MaxRestores
    BY <1>1, <2>1, RestoreAssumption DEF RestoreTypeOK, Handlings, RowsInv
  <2>4. snapshots' \subseteq [stamp : 1..MaxRestores, of : 1..MaxRestores, whole : BOOLEAN]
    <3>1. PICK b \in BOOLEAN, m \in 1..begun :
            snapshots' \subseteq snapshots \cup {[stamp |-> m, of |-> begun, whole |-> b]}
      BY <2>1
    <3>2. m \in 1..MaxRestores
      BY <2>3, RestoreAssumption
    <3>3. [stamp |-> m, of |-> begun, whole |-> b]
            \in [stamp : 1..MaxRestores, of : 1..MaxRestores, whole : BOOLEAN]
      BY <2>3, <3>2
    <3>4. snapshots \subseteq [stamp : 1..MaxRestores, of : 1..MaxRestores, whole : BOOLEAN]
      BY <1>1 DEF RestoreTypeOK
    <3> QED BY <3>1, <3>3, <3>4
  <2>5. restore' \in Handlings /\ restore'.at # "snapshot"
    BY <1>1, <2>2, HandlerTyped, IdleTyped DEF Idle
  <2>6. BackupTypeOK'
    BY <1>1, <2>1 DEF BackupTypeOK, backupVars, scheduleVars, runVars
  <2>7. RestoreTypeOK'
    BY <1>1, <2>1, <2>4, <2>5 DEF RestoreTypeOK, Handlings, stagingVars
  <2>8. RowsInv'
    BY <1>1, <2>1, <2>5 DEF RowsInv, backupVars, scheduleVars, runVars
  <2> QED BY <2>6, <2>7, <2>8 DEF RestoreTyped
<1>4. CASE Teardown
  <2>1. /\ teardown' = "done" /\ wal' = "merged"
        /\ timer' = NoTimer /\ catchUp' = FALSE /\ stopped' = TRUE
        /\ UNCHANGED <<config, now, runVars, up, label, file, snapshots, marker,
                       stagingVars, restore, backstop, begun>>
    BY <1>4 DEF Teardown
  <2>2. BackupTypeOK'
    BY <1>1, <2>1 DEF BackupTypeOK, runVars
  <2>3. RestoreTypeOK'
    BY <1>1, <2>1 DEF RestoreTypeOK, Handlings, stagingVars
  <2>4. RowsInv'
    BY <1>1, <2>1 DEF RowsInv, runVars
  <2> QED BY <2>2, <2>3, <2>4 DEF RestoreTyped
<1>5. CASE Stopped
  <2>1. /\ UNCHANGED <<backupVars, diskVars, stagingVars, backstop, teardown, begun>>
        /\ restore' = [restore EXCEPT !.at = "swap"]
    BY <1>5 DEF Stopped
  <2>2. BackupTypeOK'
    BY <1>1, <2>1 DEF BackupTypeOK, backupVars, scheduleVars, runVars
  <2>3. RestoreTypeOK'
    BY <1>1, <2>1, HandlerTyped DEF RestoreTypeOK, Handlings, stagingVars, diskVars
  <2>4. restore'.at = "swap"
    BY <1>1, <2>1, HandlerTyped
  <2>5. RowsInv'
    BY <1>1, <2>1, <2>4 DEF RowsInv, backupVars, scheduleVars, runVars, diskVars
  <2> QED BY <2>2, <2>3, <2>5 DEF RestoreTyped
<1> QED BY <1>2, <1>3, <1>4, <1>5

\* The end of the process, by the swap, a crash or the last resort.
LEMMA GoneTyped ==
  ASSUME RestoreTyped, RestoreGone, config' \in Configs, openRows' \in 0..1,
         lastDone' \in {Never} \cup 0..Horizon, dirs' = dirs,
         file' \in {"live", "bundle"}, wal' \in {"holds", "merged", "gone", "lost"},
         marker' \in BOOLEAN
  PROVE  RestoreTyped'
<1>1. RestoreTypeOK /\ BackupTypeOK /\ RowsInv
  BY DEF RestoreTyped
<1>2. /\ up' = FALSE /\ timer' = NoTimer /\ catchUp' = FALSE /\ stopped' = FALSE
      /\ job' = [p \in Callers |-> "idle"] /\ running' = FALSE
      /\ restore' = Idle /\ backstop' = FALSE /\ teardown' = "no" /\ staged' = 0
      /\ UNCHANGED <<now, bundles, landed, minute, alarm, label, sent, snapshots, begun>>
  BY DEF RestoreGone, Volatile
<1>3. job' \in [Callers -> Stages]
  BY <1>2 DEF Stages
<1>4. BackupTypeOK'
  BY <1>1, <1>2, <1>3 DEF BackupTypeOK
<1>5. 0 \in 0..MaxStaged
  BY RestoreAssumption
<1>6. RestoreTypeOK'
  BY <1>1, <1>2, <1>5, IdleTyped DEF RestoreTypeOK, Handlings
<1>7. RowsInv'
  BY <1>2 DEF RowsInv, Idle
<1> QED BY <1>4, <1>6, <1>7 DEF RestoreTyped

LEMMA RestoreTypedNext ==
  RestoreTyped /\ OneRun /\ [RestoreNext]_<<backupVars, restoreVars>> => RestoreTyped'
<1> SUFFICES ASSUME RestoreTyped, OneRun, [RestoreNext]_<<backupVars, restoreVars>>
             PROVE  RestoreTyped'
  OBVIOUS
<1>0. RestoreTypeOK /\ BackupTypeOK /\ RowsInv
  BY DEF RestoreTyped
<1>1. ASSUME UNCHANGED restoreVars PROVE RestoreTypeOK'
  BY <1>0, <1>1 DEF RestoreTypeOK, Handlings, restoreVars, diskVars, stagingVars
<1>2. ASSUME UNCHANGED backupVars PROVE BackupTypeOK'
  BY <1>0, <1>2 DEF BackupTypeOK, backupVars, scheduleVars, runVars
<1>3. CASE BackupGoesOn
  <2>1. UNCHANGED restoreVars
    BY <1>3 DEF BackupGoesOn
  <2> QED BY <1>1, <1>3, <2>1, RunTyped DEF RestoreTyped
<1>4. CASE Upload \/ Staged \/ DropStaged \/ Confirm
  BY <1>4, StagingTyped
<1>5. CASE Commit \/ SnapshotDone \/ SnapshotFails \/ Teardown \/ Stopped
  BY <1>5, CommitTyped
<1>6. ASSUME NEW n \in 0..4, Files(n)
      PROVE  /\ file' \in {"live", "bundle"} /\ wal' \in {"holds", "merged", "gone", "lost"}
             /\ marker' \in BOOLEAN
  <2>1. /\ file \in {"live", "bundle"} /\ wal \in {"holds", "merged", "gone", "lost"}
        /\ marker \in BOOLEAN
    BY <1>0 DEF RestoreTypeOK, Handlings
  <2>2. marker' \in BOOLEAN
    BY <1>6, <2>1, Zenon DEF Files
  <2> QED BY <1>6, <2>1, <2>2 DEF Files
<1>7. CASE Swap
  <2>1. PICK n \in 0..4 : /\ Files(n)
                         /\ IF n < 3 THEN UNCHANGED <<config, openRows, lastDone>>
                            ELSE config' \in Configs /\ openRows' = 1 /\ lastDone' = Never
    BY <1>7 DEF Swap
  <2>2. config' \in Configs /\ openRows' \in 0..1 /\ lastDone' \in {Never} \cup 0..Horizon
    BY <1>0, <2>1 DEF BackupTypeOK
  <2>3. RestoreGone /\ dirs' = dirs
    BY <1>7 DEF Swap
  <2> QED BY <1>6, <2>1, <2>2, <2>3, GoneTyped
<1>8. CASE SwapFails
  <2>1. /\ UNCHANGED <<backupVars, stagingVars, backstop, begun, teardown, snapshots>>
        /\ restore' = Idle /\ Files(2)
    BY <1>8 DEF SwapFails, GiveUp
  <2>2. wal' = "gone"
    BY <2>1 DEF Files
  <2>3. RestoreTypeOK'
    BY <1>0, <1>6, <2>1, IdleTyped DEF RestoreTypeOK, Handlings, stagingVars
  <2>4. RowsInv'
    BY <1>0, <2>1, <2>2 DEF RowsInv, Idle, backupVars, scheduleVars, runVars
  <2> QED BY <1>2, <2>1, <2>3, <2>4 DEF RestoreTyped
<1>9. ASSUME Dies PROVE RestoreTyped'
  <2>1. RestoreGone /\ UNCHANGED <<config, openRows, lastDone, dirs, file, wal, marker>>
    BY <1>9 DEF Dies
  <2>2. config' \in Configs /\ openRows' \in 0..1 /\ lastDone' \in {Never} \cup 0..Horizon
    BY <1>0, <2>1 DEF BackupTypeOK
  <2>3. /\ file' \in {"live", "bundle"} /\ wal' \in {"holds", "merged", "gone", "lost"}
        /\ marker' \in BOOLEAN
    BY <1>0, <2>1 DEF RestoreTypeOK, Handlings
  <2> QED BY <2>1, <2>2, <2>3, GoneTyped
<1>10. CASE Backstop \/ RestoreCrash \/ Sigterm
  <2>1. CASE /\ teardown' = "running"
             /\ UNCHANGED <<backupVars, diskVars, stagingVars, restore, backstop, begun>>
    <3>1. RestoreTypeOK'
      BY <1>0, <2>1 DEF RestoreTypeOK, Handlings, diskVars, stagingVars
    <3>2. RowsInv'
      BY <1>0, <2>1 DEF RowsInv, backupVars, scheduleVars, runVars, diskVars
    <3> QED BY <1>2, <2>1, <3>1, <3>2 DEF RestoreTyped
  <2> QED BY <1>9, <1>10, <2>1 DEF Backstop, RestoreCrash, Sigterm
<1>11. ASSUME NEW p \in Callers, CutShort(p) PROVE RestoreTyped'
  <2>1. /\ wal # "holds" /\ UNCHANGED <<scheduleVars, openRows, lastDone, bundles, landed, minute, alarm,
                                        up, label, restoreVars>>
        /\ job' = [job EXCEPT ![p] = "idle"] /\ running' = FALSE
    BY <1>11 DEF CutShort
  <2>2. BackupTypeOK'
    BY <1>0, <2>1 DEF BackupTypeOK, scheduleVars, Stages
  <2>3. RowsInv'
    BY <1>0, <2>1 DEF RowsInv, restoreVars, diskVars
  <2> QED BY <1>1, <2>1, <2>2, <2>3 DEF RestoreTyped
<1>12. CASE RestoreStart
  <2>1. /\ ~ up /\ up' = TRUE /\ openRows' = 0
        /\ catchUp' = (config.enabled /\ CatchUpDue) /\ timer' = ArmedTimer(config)
        /\ label' \in Labels
        /\ UNCHANGED <<config, now, stopped, job, running, lastDone, bundles, landed, minute, alarm>>
        /\ file' = "live" /\ wal' = "holds" /\ dirs' = {} /\ marker' = FALSE
        /\ UNCHANGED <<snapshots, staged, sent, restore, backstop, teardown, begun>>
    BY <1>12 DEF RestoreStart, BackupStart, WorkerStarts
  <2>2. timer' \in {NoTimer} \cup Nat
    BY <1>0, <2>1, ArmedIsTime, BackupAssumption DEF BackupTypeOK
  <2>3. catchUp' \in BOOLEAN
    BY <2>1, Zenon
  <2>4. BackupTypeOK'
    BY <1>0, <2>1, <2>2, <2>3 DEF BackupTypeOK
  <2>5. RestoreTypeOK'
    BY <1>0, <2>1 DEF RestoreTypeOK, Handlings
  <2>6. \A p \in Callers : job[p] = "idle"
    BY <1>0, <2>1 DEF RowsInv, OneRun
  <2>7. RowsInv'
    BY <1>0, <2>1, <2>6 DEF RowsInv
  <2> QED BY <2>4, <2>5, <2>7 DEF RestoreTyped
<1>13. CASE UNCHANGED <<backupVars, restoreVars>>
  <2>1. RowsInv'
    BY <1>0, <1>13 DEF RowsInv, backupVars, scheduleVars, runVars, restoreVars,
       diskVars
  <2> QED BY <1>1, <1>2, <1>13, <2>1 DEF RestoreTyped
<1> QED
  BY <1>3, <1>4, <1>5, <1>7, <1>8, <1>10, <1>11, <1>12, <1>13 DEF RestoreNext

\* Type correctness of backups and restores, for any schedules, retention and
\* bounds: one row at most is open, and every bundle, snapshot and timer is one
\* the code can have made.
THEOREM RestoreTypes == RestoreSpec => [](BackupTypeOK /\ RestoreTypeOK)
<1>1. RestoreTyped => BackupTypeOK /\ RestoreTypeOK
  BY DEF RestoreTyped
<1>2. RestoreInit => SwapInv /\ OneRun /\ RestoreTyped
  BY SwapInit, OneRunInit, RestoreTypedInit
<1>3. SwapInv /\ OneRun /\ RestoreTyped /\ [RestoreNext]_<<backupVars, restoreVars>>
        => (SwapInv /\ OneRun /\ RestoreTyped)'
  BY SwapNext, OneRunNext, RestoreTypedNext
<1> QED BY <1>1, <1>2, <1>3, PTL DEF RestoreSpec
=============================================================================
