--------------------------- MODULE MCQuoteLookup ---------------------------
(* Small instances of the way from a typed line to a quote for TLC.        *)
EXTENDS QuoteLookup

(* Every text of up to six characters; three kinds of white space, the     *)
(* command word, a letter and the two separators.                          *)
Typeable == {"space", "nel", "bom", "/", "=", "STOCK", "A"}
AllLines == BoundedSeq(Typeable, 6)
AllNames == BoundedSeq({"space", "nel", "bom", "A", "/"}, 5)

OneLine == {<<"/", "STOCK", "=", "A">>}
NoNames == {}

Waits == <<1, 2, 2>>

ASSUME WaitsAssumption == BackoffFits

(* Headers and up to two sessions of one or two fields.                    *)
Headers == {<<"Close">>, <<"Date">>, <<"Date", "Close">>, <<"Close", "Date">>}
Rows    == BoundedSeq({"0", "1", "2", "N/D"}, 2) \ {<<>>}
CsvBodies ==
    {[kind |-> "csv", lines |-> <<h>> \o rows] : h \in Headers, rows \in BoundedSeq(Rows, 2)}
JsonBodies == [kind : {"json"}, c : Prices, pc : Prices]
Others == {[kind |-> "html"], [kind |-> "text"], [kind |-> "blank"]}

AllBodies == CsvBodies \cup JsonBodies \cup Others
=============================================================================
