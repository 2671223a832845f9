-------------------------- MODULE MCSampleAnalysis --------------------------
EXTENDS SampleAnalysis

MCFields == {"port.x", "robot.x"}
MCAliasOf == [f \in MCFields |-> "x"]
MCFieldOf == [worker |-> "port.x", agent |-> "robot.x"]
MCValuesOf == [worker |-> {0, 2}, agent |-> {2, NaN}]
MCAlertRules ==
  [high |-> [field |-> "port.x", above |-> TRUE, threshold |-> 1, hysteresis |-> 1, duration |-> 1],
   sum |-> [field |-> "total", above |-> FALSE, threshold |-> 3, hysteresis |-> 0, duration |-> 0]]
Total == [name |-> "total", inputs |-> {"port.x", "robot.x"}, function |-> "sum"]
Twice == [name |-> "twice", inputs |-> {"rate"}, function |-> "sum"]
Rate == [name |-> "rate", inputs |-> {"x"}, function |-> "derivative"]
MCConfigurations == {<<Total>>, <<Twice, Rate>>}
=============================================================================
