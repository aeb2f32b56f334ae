---------------------------- MODULE MCTeamImport ----------------------------
(* Instances of TeamImport for TLC. *)
EXTENDS TeamImport

CONSTANTS c1, c2, a, b, blank

MCClients == {c1, c2}
MCCells == {a, b, blank}

Csv(header, records) == [ext |-> ".csv", header |-> header, records |-> records]
Sheet(header, records) == [ext |-> ".xlsx", header |-> header, records |-> records]

MCFiles == {
    \* Two columns, the second row without a name.
    Csv(<<"name", "club">>, <<<<a, b>>, <<blank, b>>, <<b, blank>>>>),
    \* A record that is too short: refused as CSV, a row without a name as a sheet.
    Csv(<<"club", "name">>, <<<<a, a>>, <<b>>>>),
    Sheet(<<"club", "name">>, <<<<a, a>>, <<b>>, <<>>>>),
    \* The name column twice: the last one that the record has counts.
    Sheet(<<"name", "name">>, <<<<a>>, <<a, blank>>>>),
    \* All rows have names.
    Csv(<<"name">>, <<<<a>>, <<b>>>>),
    [ext |-> "other", header |-> <<>>, records |-> <<>>]}

=============================================================================
