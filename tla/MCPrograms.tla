----------------------------- MODULE MCPrograms -----------------------------
(***************************************************************************)
(* What posix_spawn starts (MCSpawn, which this module extends), what the  *)
(* table of started programs keeps of it, the string and memory functions, *)
(* placed images, and their thread-local variables: parts that share no    *)
(* state.  A behaviour is one call of the first, or one of the second (two *)
(* contexts and a copy, two entries, three programs, two identifiers), one *)
(* call of the third (StringCalls), or one of the fourth or the fifth (two *)
(* contexts).                                                              *)
(***************************************************************************)
EXTENDS MCSpawn, StringCalls

CONSTANTS c1, c2, kid, Nobody

VARIABLES part, says, entry, next, lock, copy, self, prog, id, open, at, doing, new, kids, told,
    call, step, reached, room, mem, kept, loads, ans,
    images, state, held, running,
    index, cxx, next_key, tsd, tsd_used, rounds, blocks, freed, first, registered, again,
    asking, arg, found, round, visited

childVars == <<says, entry, next, lock, copy, self, prog, id, open, at, doing, new, kids, told>>
stringVars == <<call, step, reached, room, mem, kept, loads, ans>>
imageVars == <<images, state, held, running>>
threadVars == <<index, cxx, next_key, tsd, tsd_used, rounds, blocks, freed, first, registered,
                again, asking, arg, found, round, visited>>

Ch == INSTANCE Children WITH Original <- {c1, c2}, Copy <- kid, MaxChild <- 2, MaxProg <- 3,
         First <- 1, Ids <- {1, 3}, MaxNumber <- 4, Forkers <- {c1}, Spawners <- {c2, kid},
         AnyWaiters <- {kid}, table <- entry, pc <- doing
St == INSTANCE Strings WITH Families <- SomeFamilies, Calls <- SomeCalls, PageVectors <- 8,
         Space <- 1024, pc <- step, at <- reached
Im == INSTANCE Images WITH Contexts <- {c1, c2}, Paths <- {1, 2}, MaxLoads <- 4, MaxRefs <- 3,
         MaxDepth <- 2, placed <- images
Tv == INSTANCE ThreadVars WITH Threads <- {c1, c2}, Vars <- {1, 2}, MaxKeys <- 3,
         Iterations <- 4, MaxAgain <- 2,
         key <- index, pc <- asking, k <- found, j <- round, i <- visited

\* What the theorem about ThreadVars assumes, of this instance.
ASSUME VariablesAssumption == Tv!Assumptions

ProgramsInit ==
    /\ part \in {"spawn", "children", "strings", "images", "variables"}
    /\ Ch!Init /\ Im!Init /\ Tv!Init
    /\ part # "children" => ~says
    /\ IF part = "spawn" THEN Init
       ELSE Init /\ ops = <<>> /\ props = {} /\ table[0] = Null /\ table[1] = Chan
                 /\ table[2] = Closed /\ table[3] = Idle
    /\ IF part = "strings" THEN St!Init
       ELSE /\ call = [fn |-> "none"] /\ step = "call" /\ reached = 0 /\ room = 0
            /\ mem = <<>> /\ kept = <<>> /\ loads = {} /\ ans = St!Nothing

ProgramsNext ==
    /\ UNCHANGED part
    /\ \/ /\ part = "spawn" /\ Next
          /\ UNCHANGED <<childVars, stringVars, imageVars, threadVars>>
       \/ /\ part = "children" /\ Ch!Next
          /\ UNCHANGED <<vars, stringVars, imageVars, threadVars>>
       \/ /\ part = "strings" /\ St!Next
          /\ UNCHANGED <<vars, childVars, imageVars, threadVars>>
       \/ /\ part = "images" /\ Im!Next
          /\ UNCHANGED <<vars, childVars, stringVars, threadVars>>
       \/ /\ part = "variables" /\ Tv!Next
          /\ UNCHANGED <<vars, childVars, stringVars, imageVars>>
       \/ /\ \/ part = "children" \/ step = "done"
             \/ part = "images" /\ \A m \in Im!Modules : state[m] # "none"
             \/ part = "variables" /\ \A t \in {c1, c2} : asking[t] = "ended"
          /\ UNCHANGED <<vars, childVars, stringVars, imageVars, threadVars>>

ProgramsSpec ==
    ProgramsInit /\ [][ProgramsNext]_<<part, vars, childVars, stringVars, imageVars, threadVars>>

\* As long as no two entries in use bear one number, a child a context was told
\* of can be waited for by the number it was told; and
\* every entry in use is somebody's and bears no other program's unit, and the
\* copy and its maker agree on its number.
ChildrenAccounted ==
    part = "children" => Ch!ChildrenWaitable /\ Ch!EntriesAccounted /\ Ch!CopyAgrees

\* A string or memory function does what the C standard says of it.
AnswersAsDefined == part = "strings" => St!AnswersAsDefined

\* And loads nothing from a page its arguments do not reach.
ReadsWithinReach == part = "strings" => St!ReadsWithinReach

\* A handle dlopen gave leads to an image that is placed, until it is closed.
HandlesUsable == part = "images" => Im!HandlesUsable

\* A thread's variable outlives the destructors that read it, and no longer.
VariablesKept == part = "variables" => Tv!VariablesKept

\* The entry wait4 reads again once it has waited is still its child's.
WaitsForItsOwn == part = "children" => Ch!WaitsForItsOwn
=============================================================================
