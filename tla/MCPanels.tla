------------------------------ MODULE MCPanels ------------------------------
EXTENDS PanelPages

\* Values below, at and above the steps of a scale; null.
SomeReadings == {-300, 99, 1601}
Null == 77777

\* Limits on either side of zero; a mount without a limit on one side.
TwoLimits == {[ccw |-> -90, cw |-> 270, lower |-> -20, upper |-> 160],
              [ccw |-> -170, cw |-> 9999, lower |-> -140, upper |-> 9999]}
SomeTargets == {<<10, 30>>, <<10, 200>>, <<-100, -130>>, <<10, 9999>>}

\* A target a turn away from the position, and an unknown position.
SomeDegrees == {<<-10, 350>>, <<40, 9999>>}

\* Limits narrower than the smallest span; a stored range with an empty text, and none.
TuneLimits == {<<-10, 5>>}
StoredRanges == {<<5, 9999>>, <<8888, 8888>>}
TemplateRange == <<-5, 5>>
=============================================================================
