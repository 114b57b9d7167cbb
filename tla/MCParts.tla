------------------------------- MODULE MCParts ------------------------------
(***************************************************************************)
(* One instance of each of five parts that share no state: the table of    *)
(* contexts (which this module extends), names, the listing of a           *)
(* directory, transfers at a position, and the allocator's caches.  A      *)
(* behaviour is one of one part, chosen at the start; the others stay in   *)
(* one initial state.                                                      *)
(***************************************************************************)
EXTENDS MCContextTable, Sequences, TLC

CONSTANTS Threads, Groups, None

VARIABLES part,
    cwd, cwdAt, dirs, opening,
    entries, iter, iter_open, pending, getdents, listed, told,
    direct, pos, plain, lock, transfer,
    ring, grp, field, cache, used, malloc, asserted

nameVars == <<cwd, cwdAt, dirs, opening>>
listVars == <<entries, iter, iter_open, pending, getdents, listed, told>>
transferVars == <<direct, pos, plain, lock, transfer>>
cacheVars == <<ring, grp, field, cache, used, malloc, asserted>>

TheTree == {<<>>, <<"a">>, <<"a", "b">>, <<"a", "b", "a">>, <<"b">>, <<"b", "a">>}
ThePaths ==
    {[abs |-> FALSE, comps |-> c] :
         c \in {<<".">>, <<"b">>, <<"..">>, <<"..", "b">>, <<"b", "..", "a">>}}
    \cup {[abs |-> TRUE, comps |-> c] : c \in {<<"a">>, <<"a", "..", "b">>}}

Nm == INSTANCE Names WITH Contexts <- {1}, Fds <- {1, 2}, MaxNamed <- 1, Alone <- TRUE,
         Supplied <- <<<<"a">>, <<"a", "b", "a">>, <<"b">>>>, Paths <- ThePaths, Tree <- TheTree
Ls == INSTANCE Listing WITH Directories <- UNION {[1..l -> 1..4] : l \in 0..3}, MaxEntry <- 3,
         Buffers <- {1, 2, 3, 5}, call <- getdents
Tr == INSTANCE Transfers WITH Contexts <- Threads, Files <- {1, 2}, Size <- 2,
         Vectors <- {<<1>>, <<1, 1>>, <<2>>}, Copies <- {<<1, 2>>}, Wants <- {1, 3}, Block <- 2,
         call <- transfer
Ac == INSTANCE AllocCache WITH N <- 3, TcMax <- 2, TcBatch <- 1, call <- malloc

\* What the theorems about Listing and Transfers assume, of these instances.
ASSUME ListingAssumption == Ls!Assumptions
ASSUME TransfersAssumption == Tr!Assumptions

PartsInit ==
    /\ part \in {"contexts", "names", "listing", "transfers", "cache"}
    /\ Init /\ Nm!Init /\ Ls!Init /\ Tr!Init /\ Ac!Init
    /\ part # "contexts" => ~recorded
    /\ part # "listing" => entries = <<>>
    /\ part # "transfers" => direct

PartsNext ==
    /\ UNCHANGED part
    /\ \/ /\ part = "contexts" /\ Next
          /\ UNCHANGED <<nameVars, listVars, transferVars, cacheVars>>
       \/ /\ part = "names" /\ Nm!Next
          /\ UNCHANGED <<vars, listVars, transferVars, cacheVars>>
       \/ /\ part = "listing" /\ Ls!Next
          /\ UNCHANGED <<vars, nameVars, transferVars, cacheVars>>
       \/ /\ part = "transfers" /\ Tr!Next
          /\ UNCHANGED <<vars, nameVars, listVars, cacheVars>>
       \/ /\ part = "cache" /\ Ac!Next
          /\ UNCHANGED <<vars, nameVars, listVars, transferVars>>

PartsSpec ==
    PartsInit /\ [][PartsNext]_<<part, vars, nameVars, listVars, transferVars, cacheVars>>

Symmetry == Permutations(Threads) \cup Permutations(Groups)

\* A name leads where walking it from the directory itself leads.
LeadsThere == part = "names" => Nm!LeadsThere

\* Every entry is delivered once and in order, and the end when all were.
ListedOnce == part = "listing" => Ls!ListedOnce

\* A transfer moves the bytes that follow the offset it was given, and no call
\* that was given an offset moves a description's own position, but for the
\* three exceptions PositionsKept names.
TransferredExactly == part = "transfers" => Tr!MovesTheRightBytes /\ Tr!PositionsKept

\* A slot is in one place, a group is released when none of its own is out, and
\* no assertion of the allocator fails.
SlotsInOnePlace == part = "cache" => Ac!SlotsInOnePlace /\ Ac!AssertsHold
=============================================================================
