-------------------------------- MODULE Form --------------------------------
(***************************************************************************)
(* The connection form of pkg/form, shown when dblab starts with no flags: *)
(* choose a driver, fill in its parameters, choose an SSL mode, fill in    *)
(* its parameters.  esc and ctrl+c stop it at any step, and Run makes the  *)
(* options out of what was entered so far whichever way it ended.          *)
(*                                                                         *)
(* The text inputs are bubbles' (outside the repository): a key reaches    *)
(* every input of the driver, and changes those that have the focus.       *)
(***************************************************************************)
EXTENDS Integers, Sequences, FiniteSets, SequencesExt, Connection

CONSTANTS
    Texts,      \* what can be typed; "no number" is not accepted as a limit
    Typed       \* bound: the inputs anybody types into

VARIABLES
    steps,      \* 0 driver, 1 parameters, 2 SSL mode, 3 SSL parameters, 4
    cursor,     \* counts from 0, as the code does
    driver,
    sslMode,
    focused,    \* the inputs whose Focus flag is set
    text,       \* text[i]: the value of input i
    quit        \* tea.Quit was returned

formVars == <<steps, cursor, driver, sslMode, focused, text, quit>>

FormDrivers == <<"postgres", "mysql", "sqlite", "oracle", "sqlserver">>

Inputs == {"host", "port", "user", "password", "schema", "database", "limit",
           "filePath", "sslCert", "sslKey", "sslPassword", "sslRootcert",
           "traceFile", "sslVerify", "wallet", "trustServerCertificate"}

StdInputs(d) ==
    CASE d = "sqlite" -> <<"filePath", "limit">>
      [] d = "mysql"  -> <<"host", "port", "user", "password", "database",
                           "limit">>
      [] OTHER        -> <<"host", "port", "user", "password", "schema",
                           "database", "limit">>

SSLModes(d) ==
    CASE d = "postgres"  -> <<"disable", "require", "verify-full", "verify-ca">>
      [] d = "mysql"     -> <<"true", "false", "skip-verify", "preferred">>
      [] d = "oracle"    -> <<"enable", "disable">>
      [] d = "sqlserver" -> <<"strict", "disable", "false", "true">>
      [] OTHER           -> <<>>

SSLConnInputs(d) ==
    CASE d = "postgres"  -> <<"sslCert", "sslKey", "sslPassword",
                              "sslRootcert">>
      [] d = "oracle"    -> <<"traceFile", "sslVerify", "wallet">>
      [] d = "sqlserver" -> <<"trustServerCertificate">>
      [] OTHER           -> <<>>

(* The inputs the current step shows, in order.                            *)
shown == CASE steps = 1 -> StdInputs(driver)
           [] steps = 3 -> SSLConnInputs(driver)
           [] OTHER     -> <<>>

(* What the cursor of the current step points into.                        *)
choices == CASE steps = 0 -> FormDrivers
             [] steps = 2 -> SSLModes(driver)
             [] OTHER     -> shown

FormInit ==
    /\ steps = 0 /\ cursor = 0 /\ quit = FALSE
    /\ driver = "postgres" /\ sslMode = "disable"
    /\ focused = {"host", "filePath", "sslCert", "trustServerCertificate"}
    /\ text = [i \in Inputs |-> ""]
-----------------------------------------------------------------------------
(* Up and down of the two menus: the cursor stops at either end.           *)
MenuMove ==
    /\ steps \in {0, 2}
    /\ \/ cursor > 0 /\ cursor' = cursor - 1
       \/ cursor + 1 < Len(choices) /\ cursor' = cursor + 1
    /\ UNCHANGED <<steps, driver, sslMode, focused, text, quit>>

(* Mutant of ChooseDriver: the cursor stays where the menu left it.        *)
ChooseDriverOnly ==
    /\ steps = 0
    /\ driver' = FormDrivers[cursor + 1]
    /\ steps' = 1
    /\ UNCHANGED <<cursor, sslMode, focused, text, quit>>

ChooseDriver ==
    /\ steps = 0
    /\ driver' = FormDrivers[cursor + 1]
    /\ steps' = 1 /\ cursor' = 0
    /\ UNCHANGED <<sslMode, focused, text, quit>>

(* enter on the last input; SQLite has nothing more to ask.                *)
StdSubmit ==
    /\ steps = 1 /\ cursor + 1 = Len(shown)
    /\ steps' = 2 /\ cursor' = 0
    /\ quit' = (driver = "sqlite")
    /\ UNCHANGED <<driver, sslMode, focused, text>>

ChooseSSLMode ==
    /\ steps = 2
    /\ sslMode' = SSLModes(driver)[cursor + 1]
    /\ IF sslMode' \in {"disable", "false"}
       THEN quit' = TRUE /\ UNCHANGED <<steps, cursor>>
       ELSE steps' = 3 /\ cursor' = 0 /\ UNCHANGED quit
    /\ UNCHANGED <<driver, focused, text>>

SSLSubmit ==
    /\ steps = 3 /\ cursor + 1 = Len(shown)
    /\ steps' = 4 /\ cursor' = 0 /\ quit' = TRUE
    /\ UNCHANGED <<driver, sslMode, focused, text>>

(* Mutant of Refocus: the input left behind keeps its focus.               *)
FocusToo(to) == focused \union {shown[i] : i \in {to + 1} \intersect DOMAIN shown}

(* The loop over the inputs shown: Focus on the cursor's, Blur the others. *)
Refocus(to) ==
    (focused \ Range(shown))
        \union {shown[i] : i \in {to + 1} \intersect DOMAIN shown}

(* tab, shift+tab, up, down, and enter before the last input.  Past either *)
(* end the cursor comes round: with no inputs, to 0 forth and to -1 back.  *)
InputMove ==
    /\ steps \in {1, 3}
    /\ \E by \in {1, -1} :
        LET to == cursor + by
        IN  cursor' = IF to > Len(shown) - 1 THEN 0
                      ELSE IF to < 0 THEN Len(shown) - 1 ELSE to
    /\ focused' = Refocus(cursor')
    /\ UNCHANGED <<steps, driver, sslMode, text, quit>>

(* Any other key goes to the inputs that have the focus.  Only the limit   *)
(* tells one text from another.                                            *)
Type ==
    /\ steps \in {1, 3}
    /\ \E value \in Texts :
        /\ focused \intersect Range(shown) \subseteq Typed
        /\ value = "no number" => "limit" \in focused
        /\ text' = [i \in Inputs |-> IF i \in focused \intersect Range(shown)
                                     THEN value ELSE text[i]]
    /\ UNCHANGED <<steps, cursor, driver, sslMode, focused, quit>>

(* esc and ctrl+c.                                                         *)
Leave ==
    /\ quit' = TRUE
    /\ UNCHANGED <<steps, cursor, driver, sslMode, focused, text>>

FormNext ==
    /\ ~quit
    /\ \/ MenuMove \/ ChooseDriver \/ StdSubmit \/ ChooseSSLMode
       \/ SSLSubmit \/ InputMove \/ Type \/ Leave
-----------------------------------------------------------------------------
(* Limit: a number above zero, or nothing.                                 *)
LimitOK == text["limit"] # "no number"

(* Run: the options of what was entered.                                   *)
FormOptions ==
    [NoOptions EXCEPT
        !.driver = driver,
        !.host = text["host"], !.port = text["port"],
        !.user = text["user"], !.pass = text["password"],
        !.ssl = sslMode, !.sslPassword = text["sslPassword"],
        !.sslVerify = text["sslVerify"],
        !.trust = text["trustServerCertificate"],
        !.encrypt = IF driver = "sqlserver" THEN sslMode ELSE "",
        !.url = IF driver = "sqlite"
                THEN [NoURL EXCEPT !.scheme = "file", !.valid = TRUE]
                ELSE NoURL]
=============================================================================
