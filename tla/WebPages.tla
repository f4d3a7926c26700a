------------------------------ MODULE WebPages ------------------------------
(***************************************************************************)
(* What a browser shows while the answers of several requests are on their *)
(* way: the chart of the market page (market.html, market-timeframes.js)   *)
(* with the server of its candles (api/chart.mjs), and the panels of the   *)
(* follower page (account-auto-strategy.js, account-wallet-portfolio.js).  *)
(* The panels share nothing but the visibility of the page; a behaviour    *)
(* follows one of them.                                                    *)
(***************************************************************************)
EXTENDS Integers, FiniteSets

CONSTANTS
  Mints,       \* tokens
  NoMint,
  Frames,      \* timeframes of the buttons
  BaseFrame,   \* the timeframe of the candles that come with a token
  MaxLooks,    \* tokens looked up in a behaviour
  MaxLoads,    \* requests for a chart in a behaviour
  MaxReads,    \* requests for one list in a behaviour
  MaxLoops     \* repetitions of the demo that run at once

ASSUME BaseFrameIsOne == BaseFrame \in Frames

VARIABLES
  view,        \* the panel a behaviour follows
  market,      \* the market page
  demo,        \* the strategy simulator
  consent,     \* the form of a copy mandate
  lists,       \* the lists that are read from the server
  hidden       \* the page is in the background

pageVars == <<view, market, demo, consent, lists, hidden>>

-----------------------------------------------------------------------------
(* The market page. *)

NoChart == [mint |-> NoMint, frame |-> BaseFrame, by |-> 0]

(* loadChart: a request is numbered and for the timeframe now chosen. *)
LoadChart(m, mint) ==
  [m EXCEPT !.asked = @ + 1, !.busy = TRUE,
            !.loads = @ \cup {[id |-> m.asked + 1, mint |-> mint, frame |-> m.frame]}]

(* showCandleReadout names the timeframe chosen, not that of the candles.  *)
Readout(m) == [m EXCEPT !.readout = m.frame]

(* An answer of fewer than two candles draws nothing, but is in the        *)
(* address bar.                                                            *)
CandleChart(m, mint, frame, by, got) ==
  [(IF got = "candles" THEN Readout(m) ELSE m)
     EXCEPT !.chart = IF got = "candles" THEN [mint |-> mint, frame |-> frame, by |-> by] ELSE NoChart,
            !.address = <<mint, frame>>]

Blanked(m) == [m EXCEPT !.chart = NoChart]

(* What enhancedAnalyze adds when the analysis of the page is over; the    *)
(* analysis that the address asks for begins before it is installed.       *)
EnhancedAnalyze(m, look) ==
  IF look.enhanced /\ m.frame # BaseFrame THEN LoadChart(m, look.mint) ELSE m

Over(m, look) == EnhancedAnalyze([m EXCEPT !.looks = @ \ {look}], look)

LookUp(m, mint, enhanced) ==
  [m EXCEPT !.looked = @ + 1, !.detail = mint,
            !.looks = @ \cup {[id |-> m.looked + 1, mint |-> mint, enhanced |-> enhanced, checked |-> FALSE]}]

(* A page may be opened with a token and a timeframe in its address. *)
Opened(frame, mint) ==
  LET m == [frame |-> frame, detail |-> NoMint, looked |-> 0, asked |-> 0, looks |-> {}, loads |-> {},
            chart |-> NoChart, readout |-> BaseFrame, address |-> <<mint, frame>>, busy |-> FALSE]
      looking == LookUp(m, mint, FALSE)
  IN IF mint = NoMint THEN m ELSE IF frame = BaseFrame THEN looking ELSE LoadChart(looking, mint)

(* A bound: every analysis under way may still load a chart. *)
Room == market.asked + Cardinality(market.looks) < MaxLoads

Analyze(mint) ==
  /\ view = "chart" /\ market.looked < MaxLooks /\ Room
  /\ market' = LookUp(market, mint, TRUE)
  /\ UNCHANGED <<view, demo, consent, lists, hidden>>

(* The head of an answer: of an analysis that is no longer the last it is  *)
(* dropped.                                                                *)
TokenHead(look, ok) ==
  /\ look \in market.looks /\ ~look.checked
  /\ market' = IF look.id # market.looked THEN Over(market, look)
               ELSE IF ~ok THEN Over(Blanked(market), look)
               ELSE [market EXCEPT !.looks = (@ \ {look}) \cup {[look EXCEPT !.checked = TRUE]}]
  /\ UNCHANGED <<view, demo, consent, lists, hidden>>

(* No answer: the last analysis or not, the page says unavailable. *)
TokenLost(look) ==
  /\ look \in market.looks
  /\ market' = Over(Blanked(market), look)
  /\ UNCHANGED <<view, demo, consent, lists, hidden>>

(* The body is read after the check. *)
TokenBody(look, got) ==
  /\ look \in market.looks /\ look.checked
  /\ market' = Over(CandleChart([market EXCEPT !.detail = look.mint], look.mint, BaseFrame, 0, got), look)
  /\ UNCHANGED <<view, demo, consent, lists, hidden>>

(* The token of the details, or what is typed into the search field. *)
CurrentMint(typed) == IF market.detail # NoMint THEN market.detail ELSE typed

ChooseFrame(frame, typed) ==
  LET mint == CurrentMint(typed)
      chosen == [market EXCEPT !.frame = frame]
  IN /\ view = "chart" /\ Room
     /\ market' = IF mint = NoMint THEN chosen ELSE LoadChart(chosen, mint)
     /\ UNCHANGED <<view, demo, consent, lists, hidden>>

(* Mutant: an answer is only compared with what it asked for. *)
AnyLoad(m, load) == load \in m.loads

NewestLoad(m, load) == load.id = m.asked

(* An answer that is no longer the last one's ends the waiting only. *)
ChartAnswer(load, got) ==
  LET m == [market EXCEPT !.loads = @ \ {load}, !.busy = FALSE] IN
  /\ load \in market.loads
  /\ market' = IF ~NewestLoad(market, load) THEN m
               ELSE IF got = "failed" THEN Blanked(m)
               ELSE CandleChart(m, load.mint, load.frame, load.id, got)
  /\ UNCHANGED <<view, demo, consent, lists, hidden>>

(* The pointer moves over the candles. *)
Point ==
  /\ view = "chart" /\ market.chart # NoChart
  /\ market' = Readout(market)
  /\ UNCHANGED <<view, demo, consent, lists, hidden>>

-----------------------------------------------------------------------------
(* The simulator: a step at a time, asked for by its button, by a start of *)
(* the demo or by one of its repetitions.                                  *)

NoDemo == [running |-> FALSE, inFlight |-> 0, starting |-> FALSE, loops |-> 0, held |-> FALSE]

(* runStep; first says that the start of the demo awaits it. *)
RunStep(s, first) ==
  IF s.running THEN s ELSE [s EXCEPT !.running = TRUE, !.inFlight = @ + 1, !.starting = first]

(* setInterval: the page holds the last repetition it began. *)
Repeat(s) == [s EXCEPT !.loops = @ + 1, !.held = TRUE, !.starting = FALSE]

(* clearInterval of the repetition held. *)
StopAuto(s) == IF s.held THEN [s EXCEPT !.loops = @ - 1, !.held = FALSE] ELSE s

DemoStep(s) == demo' = s /\ UNCHANGED <<view, market, consent, lists, hidden>>

ClickRun == view = "demo" /\ ~demo.running /\ DemoStep(RunStep(demo, FALSE))

(* A start while a step runs finds nothing to wait for. *)
ClickAuto ==
  /\ view = "demo"
  /\ demo.held \/ demo.loops + (IF demo.starting THEN 1 ELSE 0) < MaxLoops
  /\ DemoStep(IF demo.held THEN StopAuto(demo)
              ELSE IF demo.running THEN [Repeat(demo) EXCEPT !.starting = demo.starting]
              ELSE RunStep(demo, TRUE))

Tick == demo.loops > 0 /\ ~hidden /\ DemoStep(RunStep(demo, FALSE))

StepAnswer ==
  LET ended == [demo EXCEPT !.running = FALSE, !.inFlight = @ - 1] IN
  /\ demo.inFlight > 0
  /\ DemoStep(IF demo.starting THEN Repeat(ended) ELSE ended)

-----------------------------------------------------------------------------
(* The consent to a mandate and the button that sends it. *)

NoConsent == [checked |-> FALSE, enabled |-> FALSE, posts |-> 0, done |-> FALSE]

ConsentStep(c) == consent' = c /\ UNCHANGED <<view, market, demo, lists, hidden>>

ToggleConsent ==
  /\ view = "consent"
  /\ ConsentStep([consent EXCEPT !.checked = ~@, !.enabled = ~consent.checked])

(* Ticking the consent again enables the button while a request runs. *)
ClickCreate ==
  /\ consent.enabled /\ consent.checked /\ consent.posts < 2
  /\ ConsentStep([consent EXCEPT !.enabled = FALSE, !.posts = @ + 1])

(* The page is reloaded after a success; an error enables the button. *)
CreateAnswer(ok) ==
  /\ consent.posts > 0
  /\ ConsentStep(IF ok THEN [consent EXCEPT !.posts = @ - 1, !.done = TRUE]
                 ELSE [consent EXCEPT !.posts = @ - 1, !.enabled = consent.checked])

ReloadPage == consent.done /\ ConsentStep(NoConsent)

-----------------------------------------------------------------------------
(* The lists of the page: each is read when the page opens. *)

Lists == {"activity", "portfolio", "positions"}
Polled == {"activity", "positions"}       \* every 15 s, and when the page is shown
Buttons == {"portfolio", "positions"}     \* with a button, disabled while it is read

(* loadCopyActivity, loadPortfolio, loadPositions. *)
LoadLists(s, which) ==
  [s EXCEPT !.count = [l \in Lists |-> IF l \in which THEN @[l] + 1 ELSE @[l]],
            !.reads = @ \cup {<<l, s.count[l] + 1>> : l \in which},
            !.disabled = @ \cup (which \cap Buttons)]

NoLists == [count |-> [l \in Lists |-> 0], reads |-> {}, shown |-> [l \in Lists |-> 0], disabled |-> {}]

ListsStep(s) == lists' = s /\ UNCHANGED <<view, market, demo, consent, hidden>>

ClickRefresh(l) ==
  /\ view = "lists" /\ l \in Buttons \ lists.disabled /\ lists.count[l] < MaxReads
  /\ ListsStep(LoadLists(lists, {l}))

Poll(l) ==
  /\ view = "lists" /\ ~hidden /\ l \in Polled /\ lists.count[l] < MaxReads
  /\ ListsStep(LoadLists(lists, {l}))

(* What the answer n leaves on the page: a failure keeps the activity, and *)
(* shows no balance and no position; positions whose accounting is not     *)
(* ready are withheld.                                                     *)
ShowActivity(got, n, shown) == IF got = "ok" THEN n ELSE shown
ShowPortfolio(got, n) == IF got = "ok" THEN n ELSE 0
ShowPositions(got, n) == IF got \in {"unready", "failed"} THEN 0 ELSE n

(* Answers are shown as they come, the older over the newer as well.       *)
ListAnswer(read, got) ==
  LET l == read[1]  n == read[2] IN
  /\ read \in lists.reads
  /\ got = "unready" => l = "positions"
  /\ ListsStep([lists EXCEPT !.reads = @ \ {read}, !.disabled = @ \ {l},
                             !.shown[l] = CASE l = "activity" -> ShowActivity(got, n, @)
                                            [] l = "portfolio" -> ShowPortfolio(got, n)
                                            [] l = "positions" -> ShowPositions(got, n)])

(* A hidden page stops the demo it holds; a page shown reads its lists.    *)
Visibility ==
  /\ view \in {"demo", "lists"}
  /\ ~hidden \/ \A l \in Polled : lists.count[l] < MaxReads
  /\ hidden' = ~hidden
  /\ demo' = IF hidden THEN demo ELSE StopAuto(demo)
  /\ lists' = IF hidden /\ view = "lists" THEN LoadLists(lists, Polled) ELSE lists
  /\ UNCHANGED <<view, market, consent>>

-----------------------------------------------------------------------------
PagesInit ==
  /\ view \in {"chart", "demo", "consent", "lists"}
  /\ IF view = "chart" THEN \E frame \in Frames, mint \in Mints \cup {NoMint} : market = Opened(frame, mint)
     ELSE market = Opened(BaseFrame, NoMint)
  /\ demo = NoDemo /\ consent = NoConsent
  /\ lists = IF view = "lists" THEN LoadLists(NoLists, Lists) ELSE NoLists
  /\ hidden = FALSE

PagesNext ==
  \/ \E mint \in Mints : Analyze(mint)
  \/ \E look \in market.looks :
       \/ \E ok \in BOOLEAN : TokenHead(look, ok)
       \/ TokenLost(look)
       \/ \E got \in {"candles", "empty"} : TokenBody(look, got)
  \/ \E frame \in Frames, typed \in Mints \cup {NoMint} : ChooseFrame(frame, typed)
  \/ \E load \in market.loads, got \in {"candles", "empty", "failed"} : ChartAnswer(load, got)
  \/ Point
  \/ ClickRun \/ ClickAuto \/ Tick \/ StepAnswer
  \/ ToggleConsent \/ ClickCreate \/ ReloadPage
  \/ \E ok \in BOOLEAN : CreateAnswer(ok)
  \/ \E l \in Lists : ClickRefresh(l) \/ Poll(l)
  \/ \E read \in lists.reads, got \in {"ok", "unready", "failed"} : ListAnswer(read, got)
  \/ Visibility

PagesSpec == PagesInit /\ [][PagesNext]_pageVars

(* When every request for a chart is answered, the candles shown are those *)
(* of the last one or of an analysis, in whatever order the answers came,  *)
(* and the address bar names the candles shown (loadChart); one step of    *)
(* the engine is asked at a time, however many repetitions of the demo run *)
(* (runStep); and a mandate can only be sent while its consent is ticked,  *)
(* whatever is ticked and answered meanwhile.                              *)
PagesCurrent ==
  /\ market.loads = {} => market.chart.by \in {0, market.asked}
  /\ market.chart # NoChart => market.address = <<market.chart.mint, market.chart.frame>>
  /\ demo.inFlight \in 0 .. 1 /\ (demo.inFlight = 1 <=> demo.running)
  /\ consent.enabled => consent.checked
=============================================================================
