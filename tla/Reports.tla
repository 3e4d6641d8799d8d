------------------------------ MODULE Reports ------------------------------
(***************************************************************************)
(* The report view of a dashboard page: four tabs, each with at most one   *)
(* load under way, a loader that covers the tab, a kept report that the    *)
(* tab's selector re-applies, and timers that load again in the background *)
(* (web/static/desktop/js/dashboard.js).                                   *)
(***************************************************************************)
EXTENDS Integers

CONSTANTS Tabs,           \* report tabs
          SelectorTabs,   \* the tabs with a series selector
          SeriesNames,    \* series besides the default one
          MaxReports      \* bound: reports the server serves

ASSUME ReportsAssumption ==
    Tabs # {} /\ SelectorTabs \subseteq Tabs /\ MaxReports \in Nat

VARIABLES
    reportView,   \* the report view is the one shown
    tab,          \* activeReportTab
    load,         \* reportRequestsInFlight: the load of each tab
    loader,       \* the panel over each tab
    kept,         \* latestInternetReport, latestPowerReport, latestHealthReport
    selection,    \* activeNetworkCategory, activePowerDevice, activeHealthMetric
    drawn,        \* what the chart of each tab shows: a report and a series
    suspendedTabs,\* dashboardConnectionSuspended or offline
    served,       \* number of reports served
    unseen        \* history: tabs whose newest report came while they were hidden

reportVars == <<reportView, tab, load, loader, kept, selection, drawn, suspendedTabs, served,
                unseen>>

NoReport == [number |-> 0, measured |-> {}]
Default == "default"
NoLoad == [phase |-> "none", background |-> FALSE, failed |-> FALSE]
Blank == <<0, Default>>

ReportsInit ==
    /\ reportView = FALSE /\ tab = CHOOSE t \in Tabs : TRUE
    /\ load = [t \in Tabs |-> NoLoad]
    /\ loader = [t \in Tabs |-> "hidden"]
    /\ kept = [t \in Tabs |-> NoReport]
    /\ selection = [t \in Tabs |-> Default]
    /\ drawn = [t \in Tabs |-> Blank]
    /\ suspendedTabs = FALSE /\ served = 0 /\ unseen = {}

Visible(t) == reportView /\ tab = t

\* The finally block of a render function: a background load is over at once, a
\* foreground one goes on to finishReportLoading.
Over(l, failed) ==
    IF l.background THEN NoLoad ELSE [l EXCEPT !.phase = "finish", !.failed = failed]

\* The start of a render function: nothing while the tab is hidden or its load is
\* under way; a foreground load shows the loader (beginReportLoading); fetchReport
\* throws at once when the page is suspended.
Begin(t, shown, background) ==
    LET started == [phase |-> "fetch", background |-> background, failed |-> FALSE] IN
    IF ~shown \/ load[t].phase # "none" THEN UNCHANGED <<load, loader>>
    ELSE /\ load' = [load EXCEPT ![t] = IF suspendedTabs THEN Over(started, TRUE) ELSE started]
         /\ loader' = IF background THEN loader ELSE [loader EXCEPT ![t] = "loading"]

\* A tab button, and setViewMode.
OpenReportTab(t) ==
    /\ reportView
    /\ tab' = t
    /\ Begin(t, TRUE, FALSE)
    /\ UNCHANGED <<reportView, kept, selection, drawn, suspendedTabs, served, unseen>>

ShowReports(shown) ==
    /\ reportView # shown
    /\ reportView' = shown
    /\ Begin(tab, shown, FALSE)
    /\ UNCHANGED <<tab, kept, selection, drawn, suspendedTabs, served, unseen>>

\* The 30 s timer, and the 5 s timer of the power tab.
ReportTimer ==
    /\ reportView /\ load[tab].phase = "none"
    /\ Begin(tab, TRUE, TRUE)
    /\ UNCHANGED <<reportView, tab, kept, selection, drawn, suspendedTabs, served, unseen>>
-----------------------------------------------------------------------------
(* The ends of a fetch *)

\* The response's headers: its time-out is cleared and its controller forgotten.
Headers(t) ==
    /\ load[t].phase = "fetch" /\ ~load[t].failed
    /\ load' = [load EXCEPT ![t].phase = "body"]
    /\ UNCHANGED <<reportView, tab, loader, kept, selection, drawn, suspendedTabs, served,
                   unseen>>

\* The time-out of 15 s, a lost connection, an answer that is not ok, a body that
\* breaks off, or the rejection of an aborted fetch.
LoadFailsInBody(t) ==                       \* mutant: no time-out before the headers
    /\ load[t].phase = "body" \/ (load[t].phase = "fetch" /\ load[t].failed)
    /\ load' = [load EXCEPT ![t] = Over(@, TRUE)]
    /\ UNCHANGED <<reportView, tab, loader, kept, selection, drawn, suspendedTabs, served,
                   unseen>>

LoadFails(t) ==
    /\ load[t].phase \in {"fetch", "body"}
    /\ load' = [load EXCEPT ![t] = Over(@, TRUE)]
    /\ UNCHANGED <<reportView, tab, loader, kept, selection, drawn, suspendedTabs, served,
                   unseen>>

\* A canvas narrower than 80 pixels is not drawn: that of a hidden tab.
DrawTab(t, report, choice) ==
    IF Visible(t) THEN /\ drawn' = [drawn EXCEPT ![t] = <<report.number, choice>>]
                       /\ unseen' = unseen \ {t}
    ELSE /\ unseen' = unseen \cup {t}
         /\ UNCHANGED drawn

\* applyInternetReport, applyHealthReport, and what the other two render functions
\* do with their report: it is kept for the selector, and drawn.
Apply(t, report) ==
    /\ kept' = [kept EXCEPT ![t] = report]
    /\ DrawTab(t, report, selection[t])

Answer(t) ==
    /\ load[t].phase = "body" /\ served < MaxReports
    /\ served' = served + 1
    /\ \E measured \in SUBSET SeriesNames :
          Apply(t, [number |-> served + 1, measured |-> measured])
    /\ load' = [load EXCEPT ![t] = Over(@, FALSE)]
    /\ UNCHANGED <<reportView, tab, loader, selection, suspendedTabs>>

\* finishReportLoading of a foreground load, not before the loader has been up for
\* 450 ms: the tab counts as loading until then.
Finish(t) ==
    /\ load[t].phase = "finish"
    /\ load' = [load EXCEPT ![t] = NoLoad]
    /\ loader' = [loader EXCEPT ![t] = IF load[t].failed THEN "error" ELSE "hidden"]
    /\ UNCHANGED <<reportView, tab, kept, selection, drawn, suspendedTabs, served, unseen>>

\* The options of a selector; updatePowerDeviceSelector disables those that the
\* newest report has not measured.
Offered(t) ==
    IF t = "power" THEN kept[t].measured \cup {Default} ELSE SeriesNames \cup {Default}

\* The change listener of a selector.
SelectWithoutRedraw(t, c) ==                \* mutant: shown only from the next report
    /\ Visible(t) /\ t \in SelectorTabs
    /\ c # selection[t] /\ c \in Offered(t)
    /\ selection' = [selection EXCEPT ![t] = c]
    /\ UNCHANGED <<reportView, tab, load, loader, kept, drawn, suspendedTabs, served, unseen>>

Select(t, c) ==
    /\ Visible(t) /\ t \in SelectorTabs
    /\ c # selection[t] /\ c \in Offered(t)
    /\ selection' = [selection EXCEPT ![t] = c]
    /\ IF kept[t] = NoReport THEN UNCHANGED <<drawn, unseen>> ELSE DrawTab(t, kept[t], c)
    /\ UNCHANGED <<reportView, tab, load, loader, kept, suspendedTabs, served>>

\* cancelPendingReportRequests, from offline and pagehide; pointerdown.
SuspendReports ==
    /\ ~suspendedTabs
    /\ suspendedTabs' = TRUE
    /\ load' = [t \in Tabs |-> IF load[t].phase = "fetch" THEN [load[t] EXCEPT !.failed = TRUE]
                               ELSE load[t]]
    /\ UNCHANGED <<reportView, tab, loader, kept, selection, drawn, served, unseen>>

ResumeReports ==
    /\ suspendedTabs
    /\ suspendedTabs' = FALSE
    /\ UNCHANGED <<reportView, tab, load, loader, kept, selection, drawn, served, unseen>>
-----------------------------------------------------------------------------
ReportLoading ==
    \/ \E t \in Tabs : OpenReportTab(t) \/ Headers(t) \/ LoadFails(t) \/ Finish(t)
    \/ SuspendReports \/ ResumeReports
ReportViewing == ShowReports(TRUE) \/ ShowReports(FALSE) \/ ReportTimer
ReportAnswers == \E t \in Tabs : Answer(t)
ReportSelectors == \E t \in Tabs, c \in SeriesNames \cup {Default} : Select(t, c)

ReportsNext == ReportLoading \/ ReportViewing \/ ReportAnswers \/ ReportSelectors

\* Only what the page does itself: the time-out of a fetch, and its continuations.
ReportsFairness ==
    \A t \in Tabs :
        /\ WF_reportVars(load[t].phase = "fetch" /\ LoadFails(t))
        /\ WF_reportVars(Finish(t))

ReportsTypeOK ==
    /\ tab \in Tabs /\ unseen \subseteq Tabs
    /\ \A t \in Tabs :
          /\ load[t].phase \in {"none", "fetch", "body", "finish"}
          /\ loader[t] \in {"hidden", "loading", "error"}
          /\ drawn[t][1] \in 0..kept[t].number
          /\ selection[t] = Default \/ t \in SelectorTabs

\* With no loader over it, a tab shows the newest report in the series selected last,
\* whichever of answers, timers and selectors came first; except one whose report
\* came while it was hidden and that was reopened in the loader's last 450 ms.
ChartFollowsReport ==
    \A t \in Tabs : Visible(t) /\ loader[t] = "hidden" /\ load[t].phase = "none" =>
        t \in unseen \/ drawn[t] = <<kept[t].number, selection[t]>>

\* A loader that turns belongs to a load that will take it down or turn it into the
\* error message (beginReportLoading, finishReportLoading and the render functions).
LoaderHasLoad ==
    \A t \in Tabs : loader[t] = "loading" => load[t].phase # "none" /\ ~load[t].background

\* An outage reaches every request that waits for its headers, and none starts
\* before the page is used again (cancelPendingReportRequests, fetchReport).
OutageCancelsReports ==
    suspendedTabs => \A t \in Tabs : load[t].phase = "fetch" => load[t].failed

\* "Report request timed out after 15 seconds.": no tab waits for headers for ever,
\* though the server never answers (fetchReport).
ReportRequestsEnd == \A t \in Tabs : load[t].phase = "fetch" ~> load[t].phase # "fetch"

\* A tab, its loader, its request and its chart agree, whichever of answers, timers,
\* outages, tabs and selectors came first (the report view of dashboard.js).
ReportsInv ==
    /\ ReportsTypeOK
    /\ ChartFollowsReport
    /\ LoaderHasLoad
    /\ OutageCancelsReports
=============================================================================
