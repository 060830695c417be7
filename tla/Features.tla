------------------------------- MODULE Features -------------------------------
(***************************************************************************)
(* Feature selection, cmake/therock_features.cmake: one CMake run adds the *)
(* features of the table in the top CMakeLists.txt one after the other,    *)
(* then force-enables, in reverse order, what enabled features require.    *)
(* The user configures again and again, with different -D flags or after   *)
(* an edit of the table; only the cache lives from one run to the next.    *)
(***************************************************************************)
EXTENDS Integers, Sequences, FiniteSets

CONSTANTS
  Feature,
  Tables,      (* Orders of their therock_add_feature calls.               *)
  Requires,    (* Requires[f]: the REQUIRES of f.                          *)
  Group,       (* Names of groups, and                                     *)
  GroupOf,     (* GroupOf[f]: the GROUP of f.                              *)
  All,         (* The group ALL, and                                       *)
  Dependent,   (* the groups that are off when it is off.                  *)
  MaxFlags     (* Bound: features named by -D flags of one CMake run.      *)

ASSUME TableAssumption ==
  /\ Tables \subseteq Seq(Feature) /\ Requires \in [Feature -> SUBSET Feature]
  /\ GroupOf \in [Feature -> Group] /\ All \in Group /\ Dependent \subseteq Group
  /\ MaxFlags \in Nat

VARIABLES
  table,     (* The table of this run.                                     *)
  cache,     (* cache[f]: the cache entry THEROCK_ENABLE_f, if there is one*)
  groups,    (* groups[g]: the cache entry THEROCK_ENABLE_g.               *)
  reset,     (* THEROCK_RESET_FEATURES.                                    *)
  asked,     (* asked[f]: what the last run's -D flags said of f.          *)
  forced,    (* Whether that run has to reset: it was asked to, or an      *)
             (* earlier one that was asked to was fatal.                   *)
  added,     (* THEROCK_ALL_FEATURES, as a set.                            *)
  enabled,   (* Features with a true THEROCK_ENABLE_f in the run's scope.  *)
  pos,       (* Where in the table the run is.                             *)
  pc         (* "idle", "adding", "finalizing", "done" or "fatal".         *)

featuresVars == <<table, cache, groups, reset, asked, forced, added, enabled, pos, pc>>
N == Len(table)
Entry == {"unset", "ON", "OFF"}

Flag(b) == IF b THEN "ON" ELSE "OFF"
On(flags) == {f \in Feature : flags[f] = "ON"}
Merge(flags, entries) == [f \in Feature |-> IF flags[f] = "unset" THEN entries[f] ELSE flags[f]]

(* cmake_dependent_option hides the entry of a group when All is off.       *)
Default(f) == groups[GroupOf[f]] /\ (GroupOf[f] \in Dependent => groups[All])

-----------------------------------------------------------------------------
(* cmake -D...                                                              *)
Configure(t, flags, groupFlags, withReset) ==
  /\ pc \in {"idle", "done", "fatal"}
  /\ table' = t
  /\ cache' = Merge(flags, cache)
  /\ groups' = groupFlags
  /\ reset' = (reset \/ withReset)
  /\ asked' = flags
  /\ forced' = (withReset \/ (pc = "fatal" /\ reset))
  /\ added' = {} /\ enabled' = {}
  /\ pos' = 1 /\ pc' = "adding"

(* DEFINED looks at variables and at cache entries alike.                   *)
IsDefined(r) == cache[r] # "unset"

Addable(f) == f \notin added /\ \A r \in Requires[f] : IsDefined(r)

AddFeature ==
  /\ pc = "adding" /\ pos <= N
  /\ Addable(table[pos])
  /\ cache' = [cache EXCEPT ![table[pos]] =
                 IF reset \/ @ = "unset" THEN Flag(Default(table[pos])) ELSE @]
  /\ added' = added \union {table[pos]}
  /\ enabled' = IF cache'[table[pos]] = "ON" THEN enabled \union {table[pos]} ELSE enabled
  /\ pos' = pos + 1
  /\ UNCHANGED <<table, groups, reset, asked, forced, pc>>

(* FATAL_ERROR ends the run; CMake saves its cache all the same.            *)
AddRefused ==
  /\ pc = "adding" /\ pos <= N
  /\ ~ Addable(table[pos])
  /\ pc' = "fatal"
  /\ UNCHANGED <<table, cache, groups, reset, asked, forced, added, enabled, pos>>

(* Mutant of StartFinalize: the last feature is passed over.                *)
StartFinalizeEarly ==
  /\ pc = "adding" /\ pos = N + 1
  /\ pc' = "finalizing" /\ pos' = N - 1
  /\ UNCHANGED <<table, cache, groups, reset, asked, forced, added, enabled>>

(* therock_finalize_features.                                               *)
StartFinalize ==
  /\ pc = "adding" /\ pos = N + 1
  /\ pc' = "finalizing" /\ pos' = N
  /\ UNCHANGED <<table, cache, groups, reset, asked, forced, added, enabled>>

(* Mutant of Finalize: required features whether or not f is enabled.       *)
FinalizeAll ==
  /\ pc = "finalizing" /\ pos >= 1
  /\ enabled' = enabled \union Requires[table[pos]]
  /\ pos' = pos - 1
  /\ UNCHANGED <<table, cache, groups, reset, asked, forced, added, pc>>

Finalize ==
  /\ pc = "finalizing" /\ pos >= 1
  /\ enabled' = IF table[pos] \in enabled THEN enabled \union Requires[table[pos]]
                                          ELSE enabled
  /\ pos' = pos - 1
  /\ UNCHANGED <<table, cache, groups, reset, asked, forced, added, pc>>

(* Mutant of Report: the reset is not one-shot.                             *)
ReportKeepingReset ==
  /\ pc = "finalizing" /\ pos = 0
  /\ pc' = "done"
  /\ UNCHANGED <<table, cache, groups, reset, asked, forced, added, enabled, pos>>

(* therock_report_features.                                                 *)
Report ==
  /\ pc = "finalizing" /\ pos = 0
  /\ pc' = "done"
  /\ reset' = FALSE
  /\ UNCHANGED <<table, cache, groups, asked, forced, added, enabled, pos>>

-----------------------------------------------------------------------------
FeaturesInit ==
  /\ table \in Tables
  /\ cache = [f \in Feature |-> "unset"]
  /\ groups \in [Group -> BOOLEAN]
  /\ reset = FALSE /\ forced = FALSE
  /\ asked = [f \in Feature |-> "unset"]
  /\ added = {} /\ enabled = {}
  /\ pos = 0 /\ pc = "idle"

Flags == {a \in [Feature -> Entry] :
            Cardinality({f \in Feature : a[f] # "unset"}) <= MaxFlags}

FeaturesNext ==
  \/ \E t \in Tables, flags \in Flags, g \in [Group -> BOOLEAN], r \in BOOLEAN :
       Configure(t, flags, g, r)
  \/ AddFeature \/ AddRefused \/ StartFinalize \/ Finalize \/ Report

FeaturesSpec == FeaturesInit /\ [][FeaturesNext]_featuresVars

-----------------------------------------------------------------------------
(* Properties.                                                              *)

(* Every variable is in its domain, and every added feature has a cache     *)
(* entry.                                                                   *)
TypeOK ==
  /\ table \in Tables
  /\ cache \in [Feature -> Entry] /\ asked \in [Feature -> Entry]
  /\ groups \in [Group -> BOOLEAN] /\ reset \in BOOLEAN /\ forced \in BOOLEAN
  /\ added \subseteq {f \in Feature : IsDefined(f)} /\ enabled \subseteq Feature
  /\ pc \in {"idle", "adding", "finalizing", "done", "fatal"}
  /\ pos \in 0 .. N + 1 /\ (pc = "adding" => pos >= 1)
  /\ pc = "finalizing" => pos <= N

(* Every feature is added after the ones it requires.                       *)
Ordered ==
  \A i \in 1 .. N : \A f \in Requires[table[i]] : \E j \in 1 .. i - 1 : table[j] = f

(* The requirements of an enabled feature are enabled, and theirs, although *)
(* finalizing passes over the table once.                                   *)
RequirementsOn ==
  pc = "done" /\ Ordered => \A f \in enabled : Requires[f] \subseteq enabled

(* ... and nothing else is: README.md:100 speaks of the minimum             *)
(* dependencies.                                                            *)
MinimumOnly ==
  pc = "done" =>
    \A S \in SUBSET Feature :
      On(cache) \subseteq S /\ (\A f \in S : Requires[f] \subseteq S) => enabled \subseteq S

(* What the -D flags of the run say is what the build gets: on is on, and   *)
(* off is off or required.                                                  *)
Obeyed ==
  \A f \in added :
    /\ asked[f] = "ON" => f \in enabled
    /\ asked[f] = "OFF" /\ f \in enabled => \E g \in enabled : f \in Requires[g]

(* ... unless the run resets the features, whatever earlier runs left in    *)
(* the cache.                                                               *)
UserDecides == pc = "done" /\ ~ forced => Obeyed

=============================================================================
