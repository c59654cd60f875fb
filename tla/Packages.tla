------------------------------ MODULE Packages ------------------------------
(***************************************************************************)
(* Android's list of packages (packages_android.go) and the rules built    *)
(* from it (BuildAndroidRules and ExcludedRanges of tun_rules.go).  The    *)
(* manager reads /data/system/packages.xml when it starts and again        *)
(* whenever its watcher reports a change, and replaces its four tables one *)
(* after the other without a lock, while another goroutine looks names up. *)
(*                                                                         *)
(* Uids are scaled: UserRange for 100,000 and 2^UidBits for 2^32; ranges   *)
(* of uids are sets.  The file is one of Files, which replace each other;  *)
(* one that does not decode is `torn'.                                     *)
(***************************************************************************)
EXTENDS Integers

CONSTANTS Files,        \* the contents the file may have
          OptionsSet,   \* the options the rules are built from
          Dirs,         \* what reading /data/user may return: sets of users, {} on error
          UserRange,    \* androidUserRange
          UidBits,      \* 32
          MaxChanges,   \* bound on the changes of the file
          MaxFailures,  \* bound on the failing reads
          none

VARIABLES file,        \* content of packages.xml
          changes, failures,
          manager,     \* "new", "watching", "deaf" (the watcher failed), "failed", "closed"
          reported,    \* the watcher has a change to report
          missed,      \* the file changed before the watcher was there
          update,      \* [at, of]: the update in progress and the file it read
          idByPackage, sharedByPackage, packageById, sharedById,
          rules        \* [at, ..]: the run of BuildAndroidRules

tables == <<idByPackage, sharedByPackage, packageById, sharedById>>
world == <<file, changes, failures>>
watch == <<manager, reported, missed>>
vars == <<world, watch, update, tables, rules>>

Good(f) == ~f.torn
Names == UNION {DOMAIN f.id \union DOMAIN f.shared : f \in {g \in Files : Good(g)}}
Ids == 0..(UserRange - 1)
Empty == [x \in {} |-> none]
Has(t, n) == n \in DOMAIN t

\* The users whose uids fit 32 bits, 42,949 of them on a device
Users == {u \in Nat : (u + 1) * UserRange - 1 <= 2^UidBits - 2}

\* A name is not that of a package and of a shared user with different ids,
\* and the options and directories name users whose uids fit.
AppAssumption ==
    /\ UserRange \in Nat \ {0} /\ 2^UidBits \in Nat /\ UserRange <= 2^UidBits - 1
    /\ \E f \in Files : Good(f)
    /\ \A f \in Files : Good(f) =>
         /\ f.id \in [DOMAIN f.id -> Ids] /\ f.shared \in [DOMAIN f.shared -> Ids]
         /\ \A n \in DOMAIN f.id \intersect DOMAIN f.shared : f.id[n] = f.shared[n]
    /\ \A o \in OptionsSet : /\ o.users \subseteq Users
                             /\ none \notin o.include /\ none \notin o.exclude
    /\ \A d \in Dirs : d \subseteq Users

\* The tables a whole file gives: by name, and by id
PackagesById(f) == [i \in {f.id[n] : n \in DOMAIN f.id} |-> {n \in DOMAIN f.id : f.id[n] = i}]
SharedById(f) == [i \in {f.shared[n] : n \in DOMAIN f.shared} |-> CHOOSE n \in DOMAIN f.shared : f.shared[n] = i]
TablesOf(f) == <<f.id, f.shared, PackagesById(f), SharedById(f)>>

---------------------------------------------------------------------------
(* The file and its watcher (external)                                     *)
Change ==
    /\ changes < MaxChanges
    /\ changes' = changes + 1
    /\ file' \in Files \ {file}
    /\ reported' = (reported \/ manager = "watching")
    /\ missed' = (manager \in {"new", "deaf"})
    /\ UNCHANGED <<failures, manager, update, tables, rules>>

---------------------------------------------------------------------------
(* Start, Close and updates                                                *)
Idle == update.at = "idle"

\* updatePackages: read the file, which may fail
ReadFile(then) ==
    /\ \/ /\ update' = [at |-> "decode", of |-> file]
          /\ UNCHANGED <<failures, manager>>
       \/ /\ failures < MaxFailures
          /\ failures' = failures + 1
          /\ manager' = then
          /\ UNCHANGED update
    /\ UNCHANGED <<file, changes, tables, rules>>

\* Start fails when the first update does
Start ==
    /\ manager = "new" /\ Idle /\ idByPackage = Empty
    /\ missed' = FALSE
    /\ ReadFile("failed")
    /\ UNCHANGED reported

\* startWatcher, whose failure is only logged; from now on changes are reported
StartWatcher ==
    /\ manager = "new" /\ Idle /\ idByPackage # Empty
    /\ manager' \in {"watching", "deaf"}
    /\ UNCHANGED <<world, reported, missed, update, tables, rules>>

\* packagesUpdated: the watcher's callback, one at a time
packagesUpdated ==
    /\ manager = "watching" /\ reported /\ Idle
    /\ reported' = FALSE
    /\ ReadFile(manager)
    /\ UNCHANGED missed

\* A file that does not decode leaves the tables as they were
DecodeFails ==
    /\ update.at = "decode" /\ ~Good(update.of)
    /\ update' = [update EXCEPT !.at = "idle"]
    /\ manager' = IF manager = "new" THEN "failed" ELSE manager
    /\ UNCHANGED <<world, reported, missed, tables, rules>>

\* slip: the table in use is emptied and filled
SetIdByPackageInPlace ==
    \/ /\ update.at = "decode" /\ Good(update.of)
       /\ idByPackage # Empty
       /\ idByPackage' = Empty
       /\ UNCHANGED <<world, watch, update, sharedByPackage, packageById, sharedById, rules>>
    \/ /\ update.at = "decode" /\ Good(update.of)
       /\ idByPackage = Empty
       /\ idByPackage' = update.of.id
       /\ update' = [update EXCEPT !.at = "shared"]
       /\ UNCHANGED <<world, watch, sharedByPackage, packageById, sharedById, rules>>

\* The four assignments at the end of decodePackages
SetIdByPackage ==
    /\ update.at = "decode" /\ Good(update.of)
    /\ idByPackage' = update.of.id
    /\ update' = [update EXCEPT !.at = "shared"]
    /\ UNCHANGED <<world, watch, sharedByPackage, packageById, sharedById, rules>>

SetSharedByPackage ==
    /\ update.at = "shared"
    /\ sharedByPackage' = update.of.shared
    /\ update' = [update EXCEPT !.at = "byId"]
    /\ UNCHANGED <<world, watch, idByPackage, packageById, sharedById, rules>>

SetPackageById ==
    /\ update.at = "byId"
    /\ packageById' = PackagesById(update.of)
    /\ update' = [update EXCEPT !.at = "sharedById"]
    /\ UNCHANGED <<world, watch, idByPackage, sharedByPackage, sharedById, rules>>

SetSharedById ==
    /\ update.at = "sharedById"
    /\ sharedById' = SharedById(update.of)
    /\ update' = [update EXCEPT !.at = "idle"]
    /\ UNCHANGED <<world, watch, idByPackage, sharedByPackage, packageById, rules>>

decodePackages == DecodeFails \/ SetIdByPackage \/ SetSharedByPackage \/ SetPackageById \/ SetSharedById

\* Close stops the watcher; an update that runs goes on
Close ==
    /\ manager \in {"watching", "deaf"}
    /\ manager' = "closed"
    /\ reported' = FALSE
    /\ UNCHANGED <<world, missed, update, tables, rules>>

---------------------------------------------------------------------------
(* BuildAndroidRules, in the goroutine that opens the device               *)
Uids == 0..(2^UidBits - 1)
userEnd == 2^UidBits - 2

UidOf(id, user) == (id + user * UserRange) % 2^UidBits
UserUids(user) == (user * UserRange)..((user + 1) * UserRange - 1)

\* ranges.Revert, on sets
Revert(uids) == (0..userEnd) \ uids

\* The users: those of the options, else the directories, else user 0
BuildUsers ==
    /\ rules.at = "none" /\ manager \in {"watching", "deaf", "closed"}
    /\ \E o \in OptionsSet, d \in Dirs :
         LET users == IF o.users # {} THEN o.users ELSE IF d # {} THEN d ELSE {0}
         IN  rules' = [at |-> "include", options |-> o, users |-> users, name |-> none,
                       left |-> o.include, include |-> {},
                       exclude |-> IF o.users = {} THEN {} ELSE Revert(UNION {UserUids(u) : u \in o.users})]
    /\ UNCHANGED <<world, watch, update, tables>>

UidsOf(id) == {UidOf(id, u) : u \in rules.users}

\* The next name is taken from the list and looked up as a shared user
BuildShared ==
    /\ rules.at \in {"include", "exclude"} /\ rules.name = none
    /\ \E n \in rules.left :
         LET found == Has(sharedByPackage, n)
             uids == IF found THEN UidsOf(sharedByPackage[n]) ELSE {}
         IN  rules' = [rules EXCEPT
                 !.left = @ \ {n},
                 !.include = IF rules.at = "include" THEN @ \union uids ELSE @,
                 !.exclude = IF rules.at = "exclude" THEN @ \union uids ELSE @,
                 !.name = IF found /\ rules.at = "include" THEN none ELSE n]
    /\ UNCHANGED <<world, watch, update, tables>>

\* ... and then as a package; a name that is neither is only reported
BuildPackage ==
    /\ rules.at \in {"include", "exclude"} /\ rules.name # none
    /\ LET n == rules.name
           uids == IF Has(idByPackage, n) THEN UidsOf(idByPackage[n]) ELSE {}
       IN  rules' = [rules EXCEPT
               !.include = IF rules.at = "include" THEN @ \union uids ELSE @,
               !.exclude = IF rules.at = "exclude" THEN @ \union uids ELSE @,
               !.name = none]
    /\ UNCHANGED <<world, watch, update, tables>>

BuildExclude ==
    /\ rules.at = "include" /\ rules.left = {} /\ rules.name = none
    /\ rules' = [rules EXCEPT !.at = "exclude", !.left = rules.options.exclude]
    /\ UNCHANGED <<world, watch, update, tables>>

\* buildExcludedRanges
ExcludedRanges(include, exclude) ==
    IF include # {} THEN Revert(include \ exclude) ELSE exclude

BuildDone ==
    /\ rules.at = "exclude" /\ rules.left = {} /\ rules.name = none
    /\ rules' = [rules EXCEPT !.at = "done"]
    /\ UNCHANGED <<world, watch, update, tables>>

BuildAndroidRules == BuildUsers \/ BuildShared \/ BuildPackage \/ BuildExclude \/ BuildDone

---------------------------------------------------------------------------
Init ==
    /\ file \in Files
    /\ changes = 0 /\ failures = 0
    /\ manager = "new" /\ reported = FALSE /\ missed = FALSE
    /\ update = [at |-> "idle", of |-> file]
    /\ idByPackage = Empty /\ sharedByPackage = Empty /\ packageById = Empty /\ sharedById = Empty
    /\ rules = [at |-> "none"]

Manager == Start \/ StartWatcher \/ packagesUpdated \/ decodePackages

Next == Change \/ Manager \/ Close \/ BuildAndroidRules

\* Only the manager's goroutines must run
Spec == Init /\ [][Next]_vars /\ WF_vars(Manager)

---------------------------------------------------------------------------
(* The tables map names to ids and back, and the uids of the rules are     *)
(* uids an app can have.                                                   *)
TypeOK ==
    /\ manager \in {"new", "watching", "deaf", "failed", "closed"}
    /\ update.at \in {"idle", "decode", "shared", "byId", "sharedById"} /\ update.of \in Files
    /\ \A t \in {idByPackage, sharedByPackage} : \A n \in DOMAIN t : n \in Names /\ t[n] \in Ids
    /\ \A i \in DOMAIN packageById : packageById[i] \in (SUBSET Names) \ {{}}
    /\ rules.at # "none" => rules.include \subseteq Uids /\ rules.exclude \subseteq 0..userEnd
    /\ (rules.at # "none" /\ rules.options.users # {}) => rules.include \subseteq UNION {UserUids(u) : u \in rules.options.users}

(* decodePackages: between updates the four tables come from one and the   *)
(* same file that decoded; a file that does not decode, or cannot be read, *)
(* leaves no trace.                                                        *)
TablesAgree ==
    Idle => \/ tables = <<Empty, Empty, Empty, Empty>>
            \/ \E f \in Files : Good(f) /\ tables = TablesOf(f)

\* The names of an id, of packages and shared users, in a file
PackagesOf(f, i) == {n \in DOMAIN f.id : f.id[n] = i}
SharedOf(f, i) == {n \in DOMAIN f.shared : f.shared[n] = i}
NamesOf(f, i) == PackagesOf(f, i) \union SharedOf(f, i)
Stable(i) == \A f, g \in {h \in Files : Good(h)} :
                 PackagesOf(f, i) = PackagesOf(g, i) /\ SharedOf(f, i) = SharedOf(g, i)

\* What the options say of an id's apps under a user
Tunnelled(i, u) ==
    LET o == rules.options
        names == NamesOf(CHOOSE f \in Files : Good(f), i)
    IN  /\ o.users = {} \/ u \in o.users
        /\ o.include = {} \/ names \intersect o.include # {}
        /\ names \intersect o.exclude = {}

(* BuildAndroidRules: an app whose entry is the same in every version of   *)
(* the file is kept away from the device exactly if the options say so, in *)
(* every user that is known, also when the tables are replaced between the *)
(* lookups.  When no name to include is found, the list counts as empty    *)
(* and nobody is kept away for it: excepted.                               *)
StableAppsObeyed ==
    (rules.at = "done" /\ (rules.options.include # {} => rules.include # {})) =>
        \A i \in {j \in Ids : Stable(j)}, u \in rules.users :
            UidOf(i, u) \notin ExcludedRanges(rules.include, rules.exclude) <=> Tunnelled(i, u)

(* ExcludedRanges: with a list of users no uid of another user is ever     *)
(* routed to the device, whatever was found.                               *)
OtherUsersStayOut ==
    (rules.at = "done" /\ rules.options.users # {}) =>
        \A uid \in 0..userEnd : uid \notin ExcludedRanges(rules.include, rules.exclude) =>
            \E u \in rules.options.users : uid \in UserUids(u)

(* packagesUpdated: once the watcher runs, the tables come to hold the     *)
(* file, unless the file changed between the first read and the watcher's  *)
(* start, cannot be read or does not decode, or the manager is closed.     *)
(* Changes being bounded, in the long run this holds for good.             *)
FollowsFile ==
    manager = "watching" /\ ~missed /\ Good(file) /\ failures = 0 => tables = TablesOf(file)

=============================================================================
