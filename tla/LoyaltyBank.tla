---------------------------- MODULE LoyaltyBank ----------------------------
(***************************************************************************)
(* What the customer loyalty store promises: one account per customer,     *)
(* each command applied to it in one step, on 32-bit integers.             *)
(* LoyaltyStore shows that the code, with its lazily started engine and    *)
(* its shared Customer objects, implements this.                           *)
(***************************************************************************)
EXTENDS Integers

CONSTANTS
    Customers,      \* customer ids
    NoAccount,      \* the value of an account that was never opened
    Half            \* 2^31 in the program: an int lies in -Half .. Half-1

VARIABLE accounts

Ints == -Half .. Half - 1

\* Unchecked C# arithmetic on int wraps around.
Int32(n) == ((n + Half) % (2 * Half)) - Half

Init == accounts = [id \in Customers |-> NoAccount]

\* The first deposit opens the account.  (The code's transfer to oneself is one
\* of these: the receiver, stored last, wins.)
Deposit(id, points) ==
    accounts' = [accounts EXCEPT
        ![id] = Int32((IF @ = NoAccount THEN 0 ELSE @) + points)]

\* Points leave an open account; nothing keeps a balance above zero.
Debit(id, points) ==
    /\ accounts[id] # NoAccount
    /\ accounts' = [accounts EXCEPT ![id] = Int32(@ - points)]

\* Both accounts change in one step.
Transfer(from, to, points) ==
    /\ from # to
    /\ accounts[from] # NoAccount
    /\ accounts[to] # NoAccount
    /\ accounts' = [accounts EXCEPT ![from] = Int32(@ - points),
                                    ![to] = Int32(@ + points)]

\* A second engine, started by a call that found none yet, starts empty.
Restart == accounts' = [id \in Customers |-> NoAccount]

Next ==
    \/ Restart
    \/ \E id \in Customers, points \in Ints :
           \/ Deposit(id, points)
           \/ Debit(id, points)
           \/ \E to \in Customers : Transfer(id, to, points)

Spec == Init /\ [][Next]_accounts
=============================================================================
