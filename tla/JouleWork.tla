------------------------------ MODULE JouleWork ------------------------------
(***************************************************************************)
(* JouleWorkAccount of nexus_sdk/memory.py.  A transfer leaves the payer's *)
(* balance; crediting it to the recipient is a second call, which somebody *)
(* must make.  A debit is taken first and judged after.                    *)
(***************************************************************************)
EXTENDS Integers, FiniteSets, FiniteSetsExt

CONSTANTS
    Accounts,
    BaseRate,           \* base_rate_per_period
    FloorNum, FloorDen, \* efficiency_floor, as a fraction
    BreakOnNegative,    \* circuit_break_on_negative
    Amounts,
    MaxAccountOps       \* bound

ASSUME JouleAssumption ==
    /\ IsFiniteSet(Accounts)
    /\ BaseRate \in Nat /\ Amounts \subseteq Nat \ {0}
    /\ FloorNum \in Nat /\ FloorDen \in Nat \ {0}
    /\ BreakOnNegative \in BOOLEAN /\ MaxAccountOps \in Nat

VARIABLES
    balance, earned, spent,   \* balance_jw, _period_jw_earned, _period_jw_spent
    pending,                  \* transfers out that were not credited yet
    answer,                   \* history: the answer to each account's last debit
    opening, wages,           \* history: initial_balance_jw, all wages paid
    accountOps                \* bound

jouleVars == <<balance, earned, spent, pending, answer, opening, wages, accountOps>>

JouleTypeOK ==
    /\ balance \in [Accounts -> Int]
    /\ earned \in [Accounts -> Nat] /\ spent \in [Accounts -> Nat]
    /\ answer \in [Accounts -> {"OK", "NEGATIVE_BALANCE", "EFFICIENCY_BELOW_FLOOR"}]

Counted == accountOps < MaxAccountOps /\ accountOps' = accountOps + 1

Credit(a, amount) ==
    /\ balance' = [balance EXCEPT ![a] = @ + amount]
    /\ earned' = [earned EXCEPT ![a] = @ + amount]

PayPeriodWage(a) ==
    /\ Counted /\ Credit(a, BaseRate)
    /\ wages' = wages + BaseRate
    /\ UNCHANGED <<spent, pending, answer, opening>>

\* efficiency_ratio < efficiency_floor
Inefficient(gained, used) == gained * FloorDen < FloorNum * used

\* A debit that looks at the balance before it takes the amount.
VerdictBefore(a, amount) ==
    IF BreakOnNegative /\ balance[a] < 0 THEN "NEGATIVE_BALANCE"
    ELSE IF earned[a] > 0 /\ Inefficient(earned[a], spent[a] + amount)
         THEN "EFFICIENCY_BELOW_FLOOR" ELSE "OK"

\* What debit() answers, the amount taken.
Verdict(a, amount) ==
    IF BreakOnNegative /\ balance[a] - amount < 0 THEN "NEGATIVE_BALANCE"
    ELSE IF earned[a] > 0 /\ Inefficient(earned[a], spent[a] + amount)
         THEN "EFFICIENCY_BELOW_FLOOR" ELSE "OK"

Debit(a, amount) ==
    /\ Counted
    /\ spent' = [spent EXCEPT ![a] = @ + amount]
    /\ balance' = [balance EXCEPT ![a] = @ - amount]
    /\ answer' = [answer EXCEPT ![a] = Verdict(a, amount)]
    /\ UNCHANGED <<earned, pending, opening, wages>>

\* transfer_to(), when the balance allows it.
TransferTo(a, b, amount) ==
    /\ Counted
    /\ amount <= balance[a]
    /\ balance' = [balance EXCEPT ![a] = @ - amount]
    /\ pending' = pending \union {[to |-> b, amount |-> amount, id |-> accountOps]}
    /\ UNCHANGED <<earned, spent, answer, opening, wages>>

\* The recipient's credit(), by whoever moved the transfer.
ReceivesTransfer(transfer) ==
    /\ Credit(transfer.to, transfer.amount)
    /\ pending' = pending \ {transfer}
    /\ UNCHANGED <<spent, answer, opening, wages, accountOps>>

JouleInit ==
    /\ opening \in [Accounts -> {0} \union Amounts]
    /\ balance = opening
    /\ earned = [a \in Accounts |-> 0] /\ spent = [a \in Accounts |-> 0]
    /\ pending = {} /\ answer = [a \in Accounts |-> "OK"]
    /\ wages = 0 /\ accountOps = 0

JouleNext ==
    \/ \E a \in Accounts : PayPeriodWage(a)
    \/ \E a \in Accounts, amount \in Amounts : Debit(a, amount)
    \/ \E a, b \in Accounts, amount \in Amounts : TransferTo(a, b, amount)
    \/ \E transfer \in pending : ReceivesTransfer(transfer)

JouleSpec == JouleInit /\ [][JouleNext]_jouleVars

-----------------------------------------------------------------------------
(* Properties *)

\* Nobody overdraws unannounced: an account below zero was told so by its last
\* debit, since credits only raise a balance and transfers stop at it.
OverdraftAnnounced ==
    \A a \in Accounts :
        BreakOnNegative /\ balance[a] < 0 => answer[a] = "NEGATIVE_BALANCE"

\* Work is neither made nor lost between accounts: what they hold and what is
\* on its way is what there was at first and the wages, less what was spent.
WorkConserved ==
    LET total(f) == MapThenSumSet(LAMBDA a : f[a], Accounts)
        moving == MapThenSumSet(LAMBDA transfer : transfer.amount, pending)
    IN  total(balance) + moving = total(opening) + wages - total(spent)
=============================================================================
