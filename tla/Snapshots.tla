------------------------------ MODULE Snapshots ------------------------------
(***************************************************************************)
(* web/snapshots.py: the loader's process publishes the store it has just  *)
(* written as the next numbered generation, and the site's process follows *)
(* the CURRENT file to it.  They share a directory and nothing else; each  *)
(* may stop between any two steps, and the loader's next process starts    *)
(* from what the last one left there.                                      *)
(*                                                                         *)
(* A store is the number of loads it holds and the generation stamped in   *)
(* it.  CURRENT moves by a rename, so its temporary file is left out.      *)
(***************************************************************************)
EXTENDS Naturals, FiniteSets, FiniteSetsExt

CONSTANTS
  MaxGen,   \* bound on the generations
  MaxLoads, \* bound on the loads
  Keep      \* load_run._SNAPSHOT_KEEP

ASSUME BoundsAssumption == MaxGen \in Nat /\ MaxLoads \in Nat /\ Keep \in Nat \ {0}

VARIABLES
  dirs,     \* each gen-N directory and the store it holds
  tmp,      \* the one gen-N.tmp directory
  current,  \* the generation CURRENT names, 0 before the first publish
  live,     \* the live store
  opened,   \* history: the live store as the loader's process opened it
  loader,   \* where the loader's process stands, and its generation
  late,     \* history: publishes that named a directory and did not finish
  site      \* where the follower stands, the generation it wants, and the one
            \* it has, or had when the site stopped

vars == <<dirs, tmp, current, live, opened, loader, late, site>>

Gens == 1..MaxGen
Store == [loads : 0..MaxLoads, mark : 0..MaxGen]
Empty == [loads |-> 0, mark |-> 0]

\* A directory that is being deleted is there, and no store.
None == [state |-> "none", store |-> Empty]
Holding(s) == [state |-> "whole", store |-> s]

Init ==
  /\ dirs = [g \in Gens |-> None]
  /\ tmp = None
  /\ current = 0
  /\ live = Empty
  /\ opened = Empty
  /\ loader = [pc |-> "away", gen |-> 0]
  /\ late = 0
  /\ site = [pc |-> "down", want |-> 0, has |-> 0]

\* _generations: gen-N.tmp is not one.
Generations == {g \in Gens : dirs[g].state # "none"}
Newest == IF Generations = {} THEN 0 ELSE Max(Generations)

LoaderAt(pc) == loader.pc = pc
LoaderGoes(pc) == loader' = [loader EXCEPT !.pc = pc]

----------------------------------------------------------------------------
(***************************************************************************)
(* The loader: load_run's loads, then publish.  A RocksDB store has one    *)
(* writer, so there is one loader at a time.                               *)
(***************************************************************************)
Load ==
  \E loads \in live.loads..MaxLoads :
    /\ LoaderAt("away")
    /\ opened' = live
    /\ live' = [live EXCEPT !.loads = loads]
    /\ LoaderGoes("loaded")
    /\ UNCHANGED <<dirs, tmp, current, late, site>>

\* The next number is the newest directory's, published or not, and one.
Stamp ==
  /\ LoaderAt("loaded")
  /\ Newest < MaxGen
  /\ live' = [live EXCEPT !.mark = Newest + 1]
  /\ loader' = [pc |-> "stamped", gen |-> Newest + 1]
  /\ UNCHANGED <<dirs, tmp, current, opened, late, site>>

\* Store.backup into an emptied gen-N.tmp, complete or, the failure the module
\* verifies against, without what this process wrote.
Backup ==
  /\ LoaderAt("stamped")
  /\ \E s \in {live, opened} : tmp' = Holding(s)
  /\ LoaderGoes("copied")
  /\ UNCHANGED <<dirs, current, live, opened, late, site>>

\* The marker read back is the generation, and gen-N.tmp becomes gen-N.
Name ==
  /\ LoaderAt("copied")
  /\ tmp.store.mark = loader.gen
  /\ dirs' = [dirs EXCEPT ![loader.gen] = tmp]
  /\ tmp' = None
  /\ LoaderGoes("named")
  /\ UNCHANGED <<current, live, opened, late, site>>

\* It is not: the snapshot is destroyed and CURRENT left alone.
Refuse ==
  /\ LoaderAt("copied")
  /\ tmp.store.mark # loader.gen
  /\ tmp' = None
  /\ LoaderGoes("away")
  /\ UNCHANGED <<dirs, current, live, opened, late, site>>

Point ==
  /\ LoaderAt("named")
  /\ current' = loader.gen
  /\ LoaderGoes("reaping")
  /\ UNCHANGED <<dirs, tmp, live, opened, late, site>>

----------------------------------------------------------------------------
(***************************************************************************)
(* reap: never the newest Keep, never the published one.  The loader knows *)
(* of no reader, so in_use is empty.                                       *)
(***************************************************************************)
\* MUTANT: the slice of the newest is one short.
KeptOneFewer ==
  {g \in Generations : Cardinality({h \in Generations : h > g}) < Keep - 1} \cup {current}

Kept ==
  {g \in Generations : Cardinality({h \in Generations : h > g}) < Keep} \cup {current}

Doomed == Generations \ Kept

\* rmtree of the oldest, which takes a while.
Reap ==
  /\ LoaderAt("reaping")
  /\ Doomed # {}
  /\ LET g == Min(Doomed) IN
       dirs' = [dirs EXCEPT ![g] =
                  IF @.state = "whole" THEN [@ EXCEPT !.state = "torn"] ELSE None]
  /\ UNCHANGED <<tmp, current, live, opened, loader, late, site>>

Finish ==
  /\ LoaderAt("reaping")
  /\ Doomed = {}
  /\ LoaderGoes("away")
  /\ late' = 0
  /\ UNCHANGED <<dirs, tmp, current, live, opened, site>>

\* An exception, which load_run prints and passes over, or a kill.
Abandon ==
  /\ ~LoaderAt("away")
  /\ LoaderGoes("away")
  /\ late' = IF loader.pc \in {"named", "reaping"} THEN late + 1 ELSE late
  /\ UNCHANGED <<dirs, tmp, current, live, opened, site>>

----------------------------------------------------------------------------
(***************************************************************************)
(* The follower: Follower.__init__ opens the published generation or the   *)
(* site does not start, and refresh takes it whenever it has moved.        *)
(***************************************************************************)
Start ==
  /\ site.pc = "down"
  /\ current # 0
  /\ site' = [site EXCEPT !.pc = "starting", !.want = current]
  /\ UNCHANGED <<dirs, tmp, current, live, opened, loader, late>>

StartOpened ==
  /\ site.pc = "starting"
  /\ dirs[site.want].state = "whole"
  /\ site' = [pc |-> "serving", want |-> 0, has |-> site.want]
  /\ UNCHANGED <<dirs, tmp, current, live, opened, loader, late>>

\* There is nothing older to fall back to, so the site does not start.
StartFails ==
  /\ site.pc = "starting"
  /\ dirs[site.want].state # "whole"
  /\ site' = [site EXCEPT !.pc = "down", !.want = 0]
  /\ UNCHANGED <<dirs, tmp, current, live, opened, loader, late>>

\* MUTANT: the newest directory is taken, published or not.
RefreshNewest ==
  /\ site.pc = "serving"
  /\ Newest # site.has
  /\ site' = [site EXCEPT !.pc = "opening", !.want = Newest]
  /\ UNCHANGED <<dirs, tmp, current, live, opened, loader, late>>

Refresh ==
  /\ site.pc = "serving"
  /\ current # site.has
  /\ site' = [site EXCEPT !.pc = "opening", !.want = current]
  /\ UNCHANGED <<dirs, tmp, current, live, opened, loader, late>>

Open ==
  /\ site.pc = "opening"
  /\ dirs[site.want].state = "whole"
  /\ site' = [site EXCEPT !.pc = "warming"]
  /\ UNCHANGED <<dirs, tmp, current, live, opened, loader, late>>

\* MUTANT: a generation that could not be opened is not asked for again.
OpenFailsForGood ==
  /\ site.pc = "opening"
  /\ dirs[site.want].state # "whole"
  /\ site' = [site EXCEPT !.pc = "given up"]
  /\ UNCHANGED <<dirs, tmp, current, live, opened, loader, late>>

\* It was reaped between the read and the open: what is served stays.
OpenFails ==
  /\ site.pc = "opening"
  /\ dirs[site.want].state # "whole"
  /\ site' = [site EXCEPT !.pc = "serving", !.want = 0]
  /\ UNCHANGED <<dirs, tmp, current, live, opened, loader, late>>

\* The warm raises.
WarmFails ==
  /\ site.pc = "warming"
  /\ site' = [site EXCEPT !.pc = "serving", !.want = 0]
  /\ UNCHANGED <<dirs, tmp, current, live, opened, loader, late>>

\* One assignment.  An on_swap that raises comes after it and changes nothing.
Swap ==
  /\ site.pc = "warming"
  /\ site' = [pc |-> "serving", want |-> 0, has |-> site.want]
  /\ UNCHANGED <<dirs, tmp, current, live, opened, loader, late>>

\* The site is stopped, or is restarted.
SiteStops ==
  /\ site.pc # "down"
  /\ site' = [site EXCEPT !.pc = "down", !.want = 0]
  /\ UNCHANGED <<dirs, tmp, current, live, opened, loader, late>>

Publish == Load \/ Stamp \/ Backup \/ Name \/ Refuse \/ Point \/ Reap \/ Finish
Follow == StartOpened \/ StartFails \/ Refresh \/ Open \/ OpenFails

Next == Publish \/ Abandon \/ Start \/ Follow \/ WarmFails \/ Swap \/ SiteStops

(***************************************************************************)
(* The poll thread runs, and nothing gets out of its loop; a warm that     *)
(* keeps being tried comes through.  The loader promises nothing.          *)
(***************************************************************************)
Fairness == WF_vars(Follow) /\ SF_vars(Swap)

Spec == Init /\ [][Next]_vars /\ Fairness

----------------------------------------------------------------------------
Directory == [state : {"none", "whole", "torn"}, store : Store]

\* Types of every variable.
TypeOK ==
  /\ dirs \in [Gens -> Directory]
  /\ tmp \in Directory
  /\ current \in 0..MaxGen
  /\ live \in Store /\ opened \in Store
  /\ loader \in [pc : {"away", "loaded", "stamped", "copied", "named", "reaping"},
                 gen : 0..MaxGen]
  /\ late \in 0..MaxGen
  /\ site \in [pc : {"down", "starting", "serving", "opening", "warming"},
               want : 0..MaxGen, has : 0..MaxGen]

(***************************************************************************)
(* CURRENT names a whole generation, verified to be the one it claims to   *)
(* be, wherever the loader stopped and whatever its backup left out: so a  *)
(* site that has just read it can open it.                                 *)
(***************************************************************************)
CurrentIsWhole ==
  current # 0 =>
    dirs[current].state = "whole" /\ dirs[current].store.mark = current

(***************************************************************************)
(* The floor under the reaper: what a reader has read in CURRENT and not   *)
(* opened yet, or has open and opens again for a worker, is there until    *)
(* Keep newer generations are.                                             *)
(***************************************************************************)
ReadersHaveTime ==
  \A g \in {site.want, site.has} \ {0} :
    Newest - g < Keep => dirs[g].state = "whole"

(***************************************************************************)
(* The generations do not pile up: there are Keep of them, the one being   *)
(* published, and one for each publish that stopped half-way since.        *)
(***************************************************************************)
GenerationsAreReaped ==
  Cardinality(Generations) <=
    Keep + late + (IF loader.pc \in {"named", "reaping"} THEN 1 ELSE 0)

(***************************************************************************)
(* What a reader may come for is there and whole, and what none can is not *)
(* kept.                                                                   *)
(***************************************************************************)
GenerationsAreKept ==
  /\ TypeOK
  /\ CurrentIsWhole
  /\ ReadersHaveTime
  /\ GenerationsAreReaped

(***************************************************************************)
(* What is served never goes back, not even when the site restarts, and a  *)
(* newer generation holds every load an older one did.                     *)
(***************************************************************************)
NothingServedIsTakenBack ==
  [][/\ current' >= current
     /\ current # 0 => dirs'[current'].store.loads >= dirs[current].store.loads
     /\ site'.has >= site.has]_vars

(***************************************************************************)
(* A site that runs comes to serve what is published, whatever was reaped  *)
(* under it or went wrong in a warm.                                       *)
(***************************************************************************)
PublishedIsServed ==
  \A g \in Gens :
    current = g /\ site.pc # "down" ~> site.has >= g \/ site.pc = "down"
=============================================================================
