------------------------------ MODULE MC_Params ------------------------------
(* TLC instance of Params: entries of params[], every way two or three of    *)
(* them meet in one register, and edits good and bad.                        *)
EXTENDS Params

Parameter(label, reg, dt) == [label |-> label, reg |-> reg, dt |-> dt]
Cap    == Parameter("DesignCapacity", 16, "UINT")
Temp   == Parameter("ChgOverTemp", 24, "INT")
Config == Parameter("BatteryConfig", 45, "FUNC")
Ntc    == Parameter("NtcConfig", 46, "NTC")
UTD    == Parameter("ChgUTDelay", 58, "B0")
OTD    == Parameter("ChgOTDelay", 58, "B1")
Release == Parameter("SCRelease", 57, "B1")
Hcovp  == Parameter("HCOVPDelay", 57, "HCOVPDELAY")
Hcuvp  == Parameter("HCUVPDelay", 57, "HCUVPDELAY")
Name   == Parameter("DeviceName", 161, "STR")
Hcoc(label, dt) == Parameter(label, 56, dt)

McLists == { <<Cap, Config>>, <<Config, Temp>>, <<Ntc, Config>>, <<UTD, OTD>>,
             <<OTD, Ntc>>, <<UTD, Cap>>, <<Name, Temp>>,
             <<Hcovp, Hcuvp, Release>>,
             <<Hcoc("DoubleOCSC", "DOUBLE"), Hcoc("SCValue", "SCVAL"),
               Hcoc("SCDelay", "SCDELAY")>>,
             <<Hcoc("DSGOC2", "DSGOC2"), Hcoc("DSGOC2Delay", "DSGOC2DELAY")>> }

McBytes == {0, 6, 255}
McTexts == { <<>>, <<"JBD">>, <<"JBD", "SP04S">> }

\* temp[] has no room for the last name of this array, line[] only for four letters of the
\* last name of this line.
LongArray == [i \in 1..11 |-> "BALANCE_EN"] \o <<"SCRL", "BOGUS">>
LongLine  == [i \in 1..7 |-> "BALANCE_EN"] \o <<"CHG_BALANCE", "LED_NUM", "SCRLX">>

McEdits == { Num(6), Num(-1), Num(65536 + 6), Bool(1), Null, Names(<<>>),
             Names(<<"SCRL", "BALANCE_EN">>), Names(<<"SCRL", "BOGUS">>),
             Names(<<Separators>>), Names(<<Separators, "BOGUS">>),
             Names(<<"SCRL", NotString>>), Names(<<NotString>>),
             Names(LongArray), Names(LongLine), Text(<<"BALANCE_EN", "SCRL">>) }
=============================================================================
