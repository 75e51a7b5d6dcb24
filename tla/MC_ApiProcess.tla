---------------------------- MODULE MC_ApiProcess ----------------------------
(***************************************************************************)
(* Small instances of ApiProcess: three requests and the environments that *)
(* give DATABASE_URL or not and up to two other settings any text worth    *)
(* telling apart, in the environment of the process or one of the two in   *)
(* its .env file.                                                          *)
(***************************************************************************)
EXTENDS ApiProcess, TLC

CONSTANTS r1, r2, r3

ThreeRequests == {r1, r2, r3}

Texts(s) ==
    {"", "junk"} \cup
    IF s \in Numeric THEN Number
    ELSE IF s \in Url THEN {"https"}
    ELSE IF s \in Word THEN AcceptedWord(s)
    ELSE {"text"}

Nothing == [s \in {} |-> ""]

Given(S) == {Nothing} \cup UNION {{s :> t : t \in Texts(s)} : s \in S}

Database == Given({"DATABASE_URL"})

\* The settings that are read together, or by more than Load.
Few == Given(Word \cup Text \cup {"MARKETDATA_REFRESH_INTERVAL"})

Environments ==
    [real : {f @@ g : f \in Few, g \in Few}, dotenv : {Nothing}]
    \cup [real : {f @@ d : f \in Given(Setting), d \in Database},
          dotenv : Database \cup Given({"MARKETDATA_REFRESH_INTERVAL"})]
=============================================================================
