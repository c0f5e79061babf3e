------------------------------- MODULE MCPanel -------------------------------
\* Small instances of PanelWeb for TLC.
EXTENDS PanelWeb, MCChimenea

MCClics == {Estado("on"), Estado("off"), Timer(1), Sensor(2)}
=============================================================================
