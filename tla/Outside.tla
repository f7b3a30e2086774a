-------------------------------- MODULE Outside --------------------------------
(***************************************************************************)
(* The clients of services outside, which share nothing with one another:  *)
(* the feeds (FeedSync), the reads of an identity tenant (IdentityRuns)    *)
(* and of the RMM site (RmmSync), and the requests of the API clients      *)
(* those reads are made with (ApiCalls).                                   *)
(* One of them works in a behaviour; the others stay as they begin.        *)
(***************************************************************************)
EXTENDS FeedSync

\* See IdentityRuns, RmmSync and ApiCalls; the bounds both have are apart.
CONSTANTS
    Tenants, NoTenant, Groups, Findings, GroupOf, Workers, Schedule,
    MaxSettings, MaxReads, IdentityFaults,
    Devices, Updates, Sites, NoSite, NoFeed, MaxChanges, MaxLoads, RmmFaults,
    Calls, MaxAttempts, Retries, MaxPages, Budget

VARIABLES
    working,    \* the part at work
    tenant, reads, recent, idRows, past, running, reader, idSpent,
    site, devices, feed, rmmDb, last, sync, rematch, rmmSpent,
    call, token, sized, try, sent, got, carriedOut, answer

Identity == INSTANCE IdentityRuns WITH
    MaxFaults <- IdentityFaults, runs <- reads, rows <- idRows, spent <- idSpent
identity == <<tenant, reads, recent, idRows, past, running, reader, idSpent>>

Rmm == INSTANCE RmmSync WITH
    MaxFaults <- RmmFaults, world <- devices, db <- rmmDb, spent <- rmmSpent
rmm == <<site, devices, feed, rmmDb, last, sync, rematch, rmmSpent>>

Api == INSTANCE ApiCalls WITH result <- answer
api == <<call, token, sized, try, sent, got, carriedOut, answer>>

all == <<vars, working, identity, rmm, api>>

OutsideInit ==
    /\ working \in {"feeds", "identity", "rmm", "api"}
    /\ Init /\ Identity!Init /\ Rmm!Init /\ Api!Init

OutsideNext ==
    /\ UNCHANGED working
    /\ \/ working = "feeds" /\ Next /\ UNCHANGED <<identity, rmm, api>>
       \/ working = "identity" /\ Identity!Next /\ UNCHANGED <<vars, rmm, api>>
       \/ working = "rmm" /\ Rmm!Next /\ UNCHANGED <<vars, identity, api>>
       \/ working = "api" /\ Api!Next /\ UNCHANGED <<vars, identity, rmm>>

\* The fairness of each part, as it is stated there, while it works.
OutsideFairness ==
    /\ \A r \in Runs :
        /\ WF_vars(working = "feeds" /\ Start(r))
        /\ WF_vars(working = "feeds" /\ (Fetch(r) \/ Process(r) \/ Settle(r)))
    /\ WF_identity(working = "identity" /\ Identity!Pass)
    /\ \A w \in Workers : WF_identity(working = "identity" /\ Identity!Read(w))
    /\ WF_rmm(working = "rmm" /\ Rmm!LoadEnds) /\ WF_rmm(working = "rmm" /\ Rmm!Elapse)
    /\ WF_rmm(working = "rmm" /\ Rmm!Pass) /\ WF_rmm(working = "rmm" /\ Rmm!SyncGoesOn)
    /\ WF_rmm(working = "rmm" /\ Rmm!RematchGoesOn)
    /\ WF_api(working = "api" /\ Api!Next)

OutsideSpec == OutsideInit /\ [][OutsideNext]_all /\ OutsideFairness

\* What is checked of the parts, of each while it works.
FeedsCatchUp == <>[](working = "feeds" => CaughtUp)
IntervalsFollowReads == Identity!IntervalsFollowReads
TenantIsRead == Identity!TenantIsRead
RmmSettles == Rmm!RmmSettles
CallsKeepTheirWord == Api!CallsKeepTheirWord
EveryCallEnds == []<>(working # "api" \/ answer # Api!Open)
===============================================================================
