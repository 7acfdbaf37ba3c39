----------------------------- MODULE MCWeighted -----------------------------
(***************************************************************************)
(* The weighted-sum checkers with the parameters of their sources.         *)
(***************************************************************************)
EXTENDS WeightedSum, Schemes

All ==
    {"nhs", "nhi", "upn", "abartn", "sedol", "cusip", "figi", "imo", "vin",
     "bicc", "kennitala", "imei", "npi", "isbn10", "isbn13", "issn8",
     "issn13", "ismn10", "ismn13", "itvatid", "atvatid", "sevatid",
     "esvatid", "nlvatid", "plvatid", "ptvatid", "sivatid", "ppsn8",
     "ppsn9", "cas1", "cas2", "cas3", "cas4", "cas5", "cas6", "cas7",
     "cas8", "gtin8", "gtin9", "gtin10", "gtin11", "gtin12", "gtin13",
     "gtin14", "gtin15", "gtin16", "gtin17", "gtin18"}

\* those of CAS numbers and GTINs apart by the number of digits
MCScheme ==
    [n \in All |->
        CASE n = "nhs" -> nhs [] n = "nhi" -> nhi
          [] n = "upn" -> upn [] n = "abartn" -> abartn
          [] n = "sedol" -> sedol [] n = "cusip" -> cusip
          [] n = "figi" -> figi [] n = "imo" -> imo
          [] n = "vin" -> vin [] n = "bicc" -> bicc
          [] n = "kennitala" -> kennitala [] n = "imei" -> imei
          [] n = "npi" -> npi [] n = "isbn10" -> isbn10
          [] n = "isbn13" -> isbn13 [] n = "issn8" -> issn8
          [] n = "issn13" -> issn13 [] n = "ismn10" -> ismn10
          [] n = "ismn13" -> ismn13 [] n = "itvatid" -> itvatid
          [] n = "atvatid" -> atvatid [] n = "sevatid" -> sevatid
          [] n = "esvatid" -> esvatid [] n = "nlvatid" -> nlvatid
          [] n = "plvatid" -> plvatid [] n = "ptvatid" -> ptvatid
          [] n = "sivatid" -> sivatid [] n = "ppsn8" -> ppsn(0)
          [] n = "ppsn9" -> ppsn(1) [] n = "cas1" -> cas(1)
          [] n = "cas2" -> cas(2) [] n = "cas3" -> cas(3)
          [] n = "cas4" -> cas(4) [] n = "cas5" -> cas(5)
          [] n = "cas6" -> cas(6) [] n = "cas7" -> cas(7)
          [] n = "cas8" -> cas(8) [] n = "gtin8" -> gtin(8)
          [] n = "gtin9" -> gtin(9) [] n = "gtin10" -> gtin(10)
          [] n = "gtin11" -> gtin(11) [] n = "gtin12" -> gtin(12)
          [] n = "gtin13" -> gtin(13) [] n = "gtin14" -> gtin(14)
          [] n = "gtin15" -> gtin(15) [] n = "gtin16" -> gtin(16)
          [] n = "gtin17" -> gtin(17) [] n = "gtin18" -> gtin(18)]

\* these contradict their documentation, each in a run of its own
Kennitala == {"kennitala"}
Ppsn == {"ppsn8", "ppsn9"}
Issn == {"issn8"}
Ismn == {"ismn10"}
Sound == All \ (Kennitala \cup Ppsn \cup Issn \cup Ismn)
\* this one accepts more than its documentation: AcceptsDocumented says what,
\* its own run that it does
Nhi == {"nhi"}

\* These refuse strings that their patterns admit: nmck_cas those with a single
\* digit and those with more than seven before the first hyphen, nmck_gtin what
\* is of no GS1 length, nmck_plvatid prefix and separators together,
\* nmck_sivatid all of the numbers without SI and blank.
Turned ==
    {"cas1", "cas8", "gtin9", "gtin10", "gtin11", "gtin15", "gtin16",
     "plvatid", "sivatid"}

\* Any string; but for the slips, where what else is in the string does not
\* matter to whether a slip changes the check character, one value for all
MCTyped(C, s) == IF s # "never" /\ 55 \in C THEN {55} ELSE C
=============================================================================
