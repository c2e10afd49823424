--------------------------- MODULE RestFota_proofs ---------------------------
(***************************************************************************)
(* The REST FOTA sample over any number of reboots.                        *)
(***************************************************************************)
EXTENDS RestFota, TLAPS

(* The semaphore was reset when the question was put, and a press made     *)
(* since is the answer to it.                                              *)
PressSinceQuestion ==
    /\ at = "asked" => press \in {"none", "asked"}
    /\ at = "associate" => press \in {"none", "associate"}

PressInv == PressSinceQuestion /\ PressAnswersQuestion

(* A press is taken for the answer to a question only when it was made     *)
(* after the question (request_jitp, do_jitp, button_handler).             *)
THEOREM PressAnswers == RestSpec => []PressAnswersQuestion
<1>1. RestInit => PressInv
  BY DEF RestInit, PressInv, PressSinceQuestion, PressAnswersQuestion
<1>2. PressInv /\ [RestNext]_restVars => PressInv'
  <2> SUFFICES ASSUME PressInv, [RestNext]_restVars PROVE PressInv'
    OBVIOUS
  <2> USE DEF PressInv, PressSinceQuestion, PressAnswersQuestion
  <2>1. CASE button_handler
    BY <2>1 DEF button_handler
  <2>2. CASE Prompt
    BY <2>2 DEF Prompt, PressForgotten
  <2>3. CASE request_jitp
    BY <2>3 DEF request_jitp
  <2>4. CASE do_jitp
    BY <2>4 DEF do_jitp, PressForgotten
  <2>5. CASE Associated
    BY <2>5 DEF Associated
  <2>6. CASE init
    BY <2>6 DEF init, Ended
  <2>7. CASE check_credentials \/ connect_to_network \/ LteConnected \/ modem_time_wait
    BY <2>7 DEF check_credentials, connect_to_network, LteConnected, modem_time_wait, Ended
  <2>8. CASE send_device_status \/ generate_jwt \/ StartPoll
    BY <2>8 DEF send_device_status, generate_jwt, StartPoll
  <2>9. CASE EndPoll
    BY <2>9 DEF EndPoll, AfterPoll, Answers
  <2>10. CASE WaitForRound \/ sample_reboot
    BY <2>10 DEF WaitForRound, sample_reboot
  <2>11. CASE lte_handler \/ TokenExpires
    BY <2>11 DEF lte_handler, TokenExpires
  <2>12. CASE UNCHANGED restVars
    BY <2>12 DEF restVars
  <2>13. QED
    BY <2>1, <2>2, <2>3, <2>4, <2>5, <2>6, <2>7, <2>8, <2>9, <2>10, <2>11, <2>12
    DEF RestNext, Main
<1>3. PressInv => PressAnswersQuestion
  BY DEF PressInv
<1>4. QED
  BY <1>1, <1>2, <1>3, PTL DEF RestSpec
=============================================================================
