------------------------------- MODULE MCCli -------------------------------
(* Cli for TLC: two companies, a ticker map that gives one spelling to the *)
(* other company in its second version, and every configuration file and   *)
(* every mapping file that is one field away from a good one.              *)
EXTENDS Cli

CONSTANTS a, b

MCListings ==
  <<[plain |-> None, dot |-> None, hyphen |-> a], [plain |-> None, dot |-> b, hyphen |-> a]>>

\* the spelling with the hyphen is found for the dot until SEC lists the dot;
\* the CIK is given without its zeros
MCNamed == [by : {"ticker"}, spelling : {"plain", "dot"}] \cup
           {[by |-> "cik", cik |-> Written(b, FALSE)]}

GoodConfig == [bytes |-> "text", value |-> [key \in Keys |-> "fine"]]
MCConfigs ==
  {[GoodConfig EXCEPT !.bytes = bytes] :
     bytes \in {"text", "none", "unreadable", "no_TOML", "latin_1"}}
  \cup UNION {{[GoodConfig EXCEPT !.value[key] = class] : class \in Classes(key)} : key \in Keys}

\* the anchor, another row, a composed item of the cover page, a subtotal, a derived item
Plain == [shape |-> "mapping", fields |-> TRUE, key |-> "revenue", period |-> "duration",
          tags |-> "list", compose |-> "none", unit |-> TRUE, anchor |-> FALSE,
          subtotal |-> FALSE, derived |-> FALSE, cover |-> FALSE]
GoodEntries ==
  <<[Plain EXCEPT !.anchor = TRUE], [Plain EXCEPT !.key = "net_income"],
    [Plain EXCEPT !.key = "shares", !.period = "instant", !.cover = TRUE, !.compose = "list"],
    [Plain EXCEPT !.key = "ebit", !.tags = "none", !.subtotal = TRUE],
    [Plain EXCEPT !.key = "change_in_nwc", !.tags = "none", !.unit = FALSE, !.derived = TRUE]>>
Values(field) ==
  CASE field = "shape" -> {"mapping", "other"}
    [] field = "key" -> {"revenue", "change_in_nwc"}
    [] field = "period" -> {"duration", "instant"}
    [] field \in {"tags", "compose"} -> {"none", "list", "text", "number"}
    [] OTHER -> BOOLEAN
MCMappingFiles ==
  {[form |-> form, entries |-> GoodEntries] :
     form \in {"entries", "no_text", "unreadable", "no_YAML", "no_mapping"}}
  \cup UNION {UNION {{[form |-> "entries", entries |-> [GoodEntries EXCEPT ![n][field] = value]] :
                        value \in Values(field)} : field \in DOMAIN Plain} : n \in 1..5}
=============================================================================
