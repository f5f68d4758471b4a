------------------------------ MODULE Programs ------------------------------
(***************************************************************************)
(* The programs of the repository that run beside the Madawc bot: the      *)
(* strategies of ToTheMoon and their rate limits, the Korlic bot, the      *)
(* crawl that feeds both bots, MM001's loop and the Talic runtime.  They   *)
(* share no state (each has its own files, database and account), so a     *)
(* behaviour exercises one of them, chosen at the start, and the others    *)
(* stand still.                                                            *)
(***************************************************************************)
EXTENDS MeanReversion, Autopilot, Mvp1MarketMaker, PolymarketEngine, KorlicBot, GammaListing,
        Mm001Simulator, RateLimits, PolymarketMvp, TalicRuntime

VARIABLE program

ProgramNames == {"mean_reversion", "autopilot", "market_maker", "engine", "korlic", "listing", "simulator",
                 "rate_limits", "mvp", "talic"}

program_vars ==
    <<program, mr_vars, ap_vars, mm_vars, en_vars, k_vars, gl_vars, sm_vars, rl_vars, pv_vars,
      talic_vars>>

ProgramsTypeOK ==
    /\ program \in ProgramNames
    /\ StrategyTypeOK /\ AutopilotTypeOK /\ MarketMakerTypeOK
    /\ EngineTypeOK /\ KorlicTypeOK /\ ListingTypeOK
    /\ SimulatorTypeOK /\ RateLimitsTypeOK /\ MvpTypeOK /\ TalicTypeOK

\* A program that is not exercised starts in one state.
ProgramsInit ==
    /\ program \in ProgramNames
    /\ StrategyInit /\ AutopilotInit /\ MarketMakerInit /\ EngineInit /\ KorlicInit /\ ListingInit
    /\ SimulatorInit /\ RateLimitsInit /\ MvpInit /\ TalicInit
    /\ program # "listing" => gl_listing = CHOOSE l \in Listings : TRUE

StrategyRuns == program = "mean_reversion" /\ StrategyNext
    /\ UNCHANGED <<program, ap_vars, mm_vars, en_vars, k_vars, gl_vars, sm_vars, rl_vars, pv_vars,
                   talic_vars>>
AutopilotRuns == program = "autopilot" /\ AutopilotNext
    /\ UNCHANGED <<program, mr_vars, mm_vars, en_vars, k_vars, gl_vars, sm_vars, rl_vars, pv_vars,
                   talic_vars>>
MarketMakerRuns == program = "market_maker" /\ MarketMakerNext
    /\ UNCHANGED <<program, mr_vars, ap_vars, en_vars, k_vars, gl_vars, sm_vars, rl_vars, pv_vars,
                   talic_vars>>
EngineRuns == program = "engine" /\ EngineNext
    /\ UNCHANGED <<program, mr_vars, ap_vars, mm_vars, k_vars, gl_vars, sm_vars, rl_vars, pv_vars,
                   talic_vars>>
KorlicRuns == program = "korlic" /\ KorlicNext
    /\ UNCHANGED <<program, mr_vars, ap_vars, mm_vars, en_vars, gl_vars, sm_vars, rl_vars, pv_vars,
                   talic_vars>>
ListingRuns == program = "listing" /\ ListingNext
    /\ UNCHANGED <<program, mr_vars, ap_vars, mm_vars, en_vars, k_vars, sm_vars, rl_vars, pv_vars,
                   talic_vars>>
SimulatorRuns == program = "simulator" /\ SimulatorNext
    /\ UNCHANGED <<program, mr_vars, ap_vars, mm_vars, en_vars, k_vars, gl_vars, rl_vars, pv_vars,
                   talic_vars>>
RateLimitsRuns == program = "rate_limits" /\ RateLimitsNext
    /\ UNCHANGED <<program, mr_vars, ap_vars, mm_vars, en_vars, k_vars, gl_vars, sm_vars, pv_vars,
                   talic_vars>>
MvpRuns == program = "mvp" /\ MvpNext
    /\ UNCHANGED <<program, mr_vars, ap_vars, mm_vars, en_vars, k_vars, gl_vars, sm_vars, rl_vars,
                   talic_vars>>
TalicRuns == program = "talic" /\ TalicNext
    /\ UNCHANGED <<program, mr_vars, ap_vars, mm_vars, en_vars, k_vars, gl_vars, sm_vars, rl_vars, pv_vars>>

ProgramsNext ==
    \/ StrategyRuns \/ AutopilotRuns \/ MarketMakerRuns \/ EngineRuns \/ KorlicRuns
    \/ ListingRuns \/ SimulatorRuns \/ RateLimitsRuns \/ MvpRuns \/ TalicRuns

ProgramsSpec == ProgramsInit /\ [][ProgramsNext]_program_vars

-----------------------------------------------------------------------------
\* The autopilot's account: every position is paid for and no snapshot is bought
\* twice.
AutopilotAccounts == BooksBalance /\ OneBuyPerSnapshot

\* The market makers' books: the MVP's inventories stay within both limits and
\* every fill is in the marks; MM001's inventory, counters and log agree, and its
\* quotes stay safe.
MarketMakerBooks == InventoryLimits /\ FillsAreMarked /\ SimulatorBooks

\* The research engine: a downloaded point is stored once per download, and the
\* backtest never holds more than its limits; the MVP library's signals are
\* justified by the prices they were made from.
ResearchData == PointsOncePerDownload /\ BacktestWithinLimits /\ MvpSignals
=============================================================================
