------------------------------ MODULE FeePlans ------------------------------
(***************************************************************************)
(* What a month costs: prices of fee heads by class with the months from    *)
(* which and until which they hold, a student's own fee, the bills made     *)
(* from them, and the families that pay together.  What is paid on a bill   *)
(* is FeeLedger's; here a bill is paid or not.                              *)
(***************************************************************************)
EXTENDS Handlers, FiniteSetsExt

CONSTANTS Kids, Heads, OneTimeHeads, Homes, Forms, Terms

\* Classes are numbered by display order, months by the calendar.
OrderAssumption == Forms \subseteq Nat /\ Terms \subseteq Nat \ {0} /\ OneTimeHeads \subseteq Heads

Prices == [form : Forms, head : Heads, amount : Nat, from : Terms, to : Terms \cup {0}]
Lines == Heads \cup {"custom"}
Bills == [lines : [Lines -> Nat \cup {Nothing}], total : Nat, paid : BOOLEAN]
Charged(lines) == {h \in DOMAIN lines : lines[h] # Nothing}
\* price: in order of creation, Nothing once deleted, "to" 0 while it holds; logged: prices in the change log.
PlanTables ==
    [price : Seq(Prices \cup {Nothing}), logged : SUBSET Nat,
     kid : [Kids -> [form : Forms, custom : Nat \cup {Nothing}, over : [Heads -> Nat \cup {Nothing}]]],
     bill : [Kids -> [Terms -> Bills \cup {Nothing}]],
     home : [Kids -> Homes \cup {Nothing}], open : [Homes -> {"none", "active", "inactive"}],
     homeLog : Seq([home : Homes, action : {"CREATED", "UPDATED", "STUDENT_ADDED", "STUDENT_REMOVED", "DEACTIVATED", "REACTIVATED"}, kids : SUBSET Kids])]

-----------------------------------------------------------------------------
(* Pricing                                                                 *)

\* The prices that are there, as <<number, row>>.
Rows == {<<n, db.price[n]>> : n \in {k \in DOMAIN db.price : db.price[k] # Nothing}}
Numbers(rows) == {x[1] : x \in rows}
Active(f, h) == Numbers({x \in Rows : x[2].form = f /\ x[2].head = h /\ x[2].to = 0})
Priced(n) == [n |-> n, form |-> db.price[n].form, head |-> db.price[n].head, amount |-> db.price[n].amount, from |-> db.price[n].from]
Effective(m) == {Priced(x[1]) : x \in {y \in Rows : y[2].from <= m /\ (y[2].to = 0 \/ y[2].to > m)}}
\* Mutant: every effective row counts.
EveryRow(rows) == rows
\* Of the rows of one class and head the one that starts last, then the one created last.
Deduped(rows) ==
    {r \in rows : \A o \in rows : o.form = r.form /\ o.head = r.head => o.from < r.from \/ (o.from = r.from /\ o.n <= r.n)}
\* Rows of one head add up; an override replaces the amount of its head, and a custom fee everything.
Breakdown(kid, rows) ==
    LET own == Charged(kid.over)
        amounts == [h \in Lines |->
            MapThenSumSet(LAMBDA r : IF h \in own THEN kid.over[h] ELSE r.amount, {r \in rows : r.head = h})]
        heads == IF own = {} /\ kid.custom # Nothing THEN {"custom"} ELSE {r.head : r \in rows}
    IN [h \in Lines |-> IF h \notin heads THEN Nothing ELSE IF h = "custom" THEN kid.custom ELSE amounts[h]]
Total(lines) == MapThenSumSet(LAMBDA h : lines[h], Charged(lines))
Clash(row) == \E x \in Rows : x[2].form = row.form /\ x[2].head = row.head /\ x[2].from = row.from
NewPrice(row) == [db EXCEPT !.price = Append(@, row)]
Ended(rows, m) == [n \in DOMAIN db.price |-> IF n \in rows /\ db.price[n] # Nothing THEN [db.price[n] EXCEPT !.to = m] ELSE db.price[n]]

\* One transaction: it reads the active rows, and what it then ends are the rows active when
\* that statement began and still so once it has their locks; a row that another transaction
\* adds meanwhile stays active beside its own.
PriceRead(p) ==
    At(p, "price", 0) /\ ReadTo(p, 1, [saw |-> [n \in Active(Call(p).row.form, Call(p).row.head) |-> db.price[n].amount], hit |-> {}])
PriceExpire(p) ==
    At(p, "price", 1) /\ ReadTo(p, 2, [loc[p] EXCEPT !.hit = IF DOMAIN loc[p].saw = {} THEN {} ELSE Active(Call(p).row.form, Call(p).row.head)])
PriceWrite(p) ==
    /\ At(p, "price", 2)
    /\ LET row == Call(p).row  saw == loc[p].saw  latest == Max(DOMAIN saw \cup {0})
           hit == loc[p].hit \cap Active(row.form, row.head)
       IN IF latest # 0 /\ saw[latest] = row.amount
          THEN Commit(p, [db EXCEPT !.price = Ended(DOMAIN saw \ {latest}, row.from)])
          ELSE IF Clash(row) THEN Refuse(p)
          ELSE /\ db' = [db EXCEPT !.price = Append(Ended(hit, row.from), row)]
               /\ pc' = [pc EXCEPT ![p] = 3] /\ loc' = [loc EXCEPT ![p] = {latest} \ {0}]
               /\ UNCHANGED <<calls, scene>>
\* The log entry refers to the row that was ended: gone, it cannot be written.
PriceLog(p) ==
    /\ At(p, "price", 3)
    /\ Commit(p, [db EXCEPT !.logged = @ \cup {n \in loc[p] : db.price[n] # Nothing}])
\* Three statements, whatever happens in between.
UpdateAmount(p) ==
    LET n == Call(p).n IN
    \/ /\ At(p, "amount", 0)
       /\ IF n \notin DOMAIN db.price \/ db.price[n] = Nothing THEN Refuse(p) ELSE ReadTo(p, 1, db.price[n])
    \/ /\ At(p, "amount", 1)
       /\ IF db.price[n] = Nothing THEN Refuse(p) ELSE WriteTo(p, 2, [db EXCEPT !.price = Ended({n}, Call(p).from)])
    \/ /\ At(p, "amount", 2)
       /\ LET row == [loc[p] EXCEPT !.amount = Call(p).amount, !.from = Call(p).from, !.to = 0]
          IN IF Clash(row) THEN Refuse(p) ELSE WriteTo(p, 3, NewPrice(row))
    \/ At(p, "amount", 3) /\ Commit(p, IF db.price[n] = Nothing THEN db ELSE [db EXCEPT !.logged = @ \cup {n}])
DeletePrice(p) ==
    /\ At(p, "unprice", 0)
    /\ IF Call(p).n \notin DOMAIN db.price \/ Call(p).n \in db.logged THEN Refuse(p)
       ELSE Commit(p, [db EXCEPT !.price[Call(p).n] = Nothing])
SetCustom(p) ==
    /\ At(p, "custom", 0)
    /\ Commit(p, [db EXCEPT !.kid[Call(p).kid].custom = Call(p).custom, !.kid[Call(p).kid].over = Call(p).over])

-----------------------------------------------------------------------------
(* Billing a month                                                         *)

Bill(lines) == [lines |-> lines, total |-> Total(lines), paid |-> FALSE]
Month(p) == Call(p).month
PayBill(p) ==
    /\ At(p, "pay", 0)
    /\ IF db.bill[Call(p).kid][Month(p)] = Nothing THEN Refuse(p) ELSE Commit(p, [db EXCEPT !.bill[Call(p).kid][Month(p)].paid = TRUE])

GenerateRead(p) ==
    /\ At(p, "generate", 0)
    /\ ReadTo(p, IF Call(p).mode = "regenerate" THEN 1 ELSE 3,
              [kid |-> [k \in {x \in Kids : db.kid[x].form \in Call(p).forms} |-> db.kid[k]], rows |-> {}, need |-> {}, drop |-> {}, copy |-> {}, charged |-> {}, bill |-> Nothing, now |-> Nothing])
\* Regeneration removes the month's unpaid bills, one by one.
RegenerateDrop(p) ==
    \/ /\ At(p, "generate", 1)
       /\ ReadTo(p, 2, [loc[p] EXCEPT !.drop = {k \in DOMAIN loc[p].kid : db.bill[k][Month(p)] # Nothing /\ ~db.bill[k][Month(p)].paid}])
    \/ /\ At(p, "generate", 2)
       /\ \/ loc[p].drop = {} /\ ReadTo(p, 3, loc[p])
          \/ \E k \in loc[p].drop :
                IF db.bill[k][Month(p)] = Nothing \/ db.bill[k][Month(p)].paid THEN Refuse(p)
                ELSE /\ db' = [db EXCEPT !.bill[k][Month(p)] = Nothing]
                     /\ loc' = [loc EXCEPT ![p].drop = @ \ {k}] /\ UNCHANGED <<calls, pc, scene>>
GeneratePrices(p) ==
    /\ At(p, "generate", 3)
    /\ LET rows == Deduped(Effective(Month(p)))
       IN ReadTo(p, 4, [loc[p] EXCEPT !.rows = rows, !.need = Call(p).forms \ {r.form : r \in rows}])
\* A class without a price takes those of the nearest class below that has some, row by row.
Provision(p) ==
    \/ /\ At(p, "generate", 4) /\ loc[p].copy = {} /\ loc[p].need # {}
       /\ \E f \in loc[p].need :
             LET below == {r.form : r \in {x \in loc[p].rows : x.form < f}}
                 rows == IF below = {} THEN {} ELSE Numbers({x \in Rows : x[2].form = Max(below) /\ x[2].to = 0})
             IN ReadTo(p, 4, [loc[p] EXCEPT !.need = @ \ {f}, !.copy = {[db.price[n] EXCEPT !.form = f] : n \in rows}])
    \/ /\ At(p, "generate", 4) /\ loc[p].copy # {}
       /\ \E row \in loc[p].copy :
             IF Clash(row) THEN Refuse(p)
             ELSE /\ db' = NewPrice(row)
                  /\ loc' = [loc EXCEPT ![p].copy = @ \ {row},
                                        ![p].rows = @ \cup {[n |-> Len(db.price) + 1, form |-> row.form, head |-> row.head, amount |-> row.amount, from |-> row.from]}]
                  /\ UNCHANGED <<calls, pc, scene>>
    \/ At(p, "generate", 4) /\ loc[p].copy = {} /\ loc[p].need = {} /\ ReadTo(p, 5, [loc[p] EXCEPT !.rows = Deduped(@)])
\* A one-time head is left out for whom some bill of the year already has it.
GenerateCharged(p) ==
    /\ At(p, "generate", 5)
    /\ IF DOMAIN loc[p].kid = {} THEN Refuse(p)
       ELSE \E k \in DOMAIN loc[p].kid :
               ReadTo(p, 6, [loc[p] EXCEPT !.now = k,
                   !.charged = UNION {IF db.bill[k][m] = Nothing THEN {} ELSE Charged(db.bill[k][m].lines) : m \in Terms}])
GenerateFind(p) == At(p, "generate", 6) /\ ReadTo(p, 7, [loc[p] EXCEPT !.bill = db.bill[loc[p].now][Month(p)]])
GenerateBill(p) ==
    /\ At(p, "generate", 7)
    /\ LET w == loc[p]  k == w.now  m == Month(p)
           rows == {r \in w.rows : r.form = w.kid[k].form /\ r.head \in Call(p).heads /\ ~(r.head \in OneTimeHeads /\ r.head \in w.charged)}
           new == Bill(Breakdown(w.kid[k], rows))
           updates == Call(p).mode = "update"
           skip == new.total = 0 \/ (IF updates THEN w.bill = Nothing \/ w.bill.total = new.total ELSE w.bill # Nothing)
           rest == [w EXCEPT !.kid = [x \in DOMAIN w.kid \ {k} |-> w.kid[x]]]
       IN IF skip THEN ReadTo(p, 5, rest)
          ELSE IF updates # (db.bill[k][m] # Nothing) THEN Refuse(p)
          ELSE /\ db' = [db EXCEPT !.bill[k][m] = [new EXCEPT !.paid = updates /\ db.bill[k][m].paid]]
               /\ pc' = [pc EXCEPT ![p] = 5] /\ loc' = [loc EXCEPT ![p] = rest]
               /\ UNCHANGED <<calls, scene>>

\* Recalculation takes every price of the class that holds in the bill's month, of whatever head.
RecalculateRead(p) ==
    \/ /\ At(p, "recalculate", 0)
       /\ LET bills == {[kid |-> k, month |-> m, total |-> db.bill[k][m].total] : <<k, m>> \in {x \in Kids \X Terms : db.bill[x[1]][x[2]] # Nothing}}
          IN IF bills = {} THEN Refuse(p) ELSE ReadTo(p, 1, [bills |-> bills, kid |-> <<>>, rows |-> <<>>])
    \/ At(p, "recalculate", 1) /\ ReadTo(p, 2, [loc[p] EXCEPT !.kid = db.kid])
    \/ At(p, "recalculate", 2) /\ ReadTo(p, 3, [loc[p] EXCEPT !.rows = [m \in Terms |-> Effective(m)]])
RecalculateWrite(p) ==
    /\ At(p, "recalculate", 3)
    /\ IF loc[p].bills = {} THEN Refuse(p)
       ELSE \E b \in loc[p].bills :
               LET new == Bill(Breakdown(loc[p].kid[b.kid], Deduped({r \in loc[p].rows[b.month] : r.form = loc[p].kid[b.kid].form})))
                   rest == [loc EXCEPT ![p].bills = @ \ {b}]
               IN IF new.total = 0 \/ new.total = b.total THEN loc' = rest /\ UNCHANGED <<db, calls, pc, scene>>
                  ELSE IF db.bill[b.kid][b.month] = Nothing THEN Refuse(p)
                  ELSE /\ db' = [db EXCEPT !.bill[b.kid][b.month] = [new EXCEPT !.paid = db.bill[b.kid][b.month].paid]]
                       /\ loc' = rest /\ UNCHANGED <<calls, pc, scene>>

-----------------------------------------------------------------------------
(* Families                                                                *)

Entry(h, action, kids) == [home |-> h, action |-> action, kids |-> kids]
Joined(tables, h, kids) == [k \in Kids |-> IF k \in kids THEN h ELSE tables.home[k]]
\* Who is in another family is looked up first; the update then takes whoever was named.
FamilyCheck(p) ==
    \/ /\ At(p, "family", 0)
       /\ IF \E k \in Call(p).add : db.home[k] # Nothing THEN Refuse(p) ELSE ReadTo(p, 1, Nothing)
    \/ /\ At(p, "members", 0)
       /\ IF db.open[Call(p).home] = "none" THEN Refuse(p) ELSE ReadTo(p, 1, db.open[Call(p).home])
    \/ /\ At(p, "members", 1)
       /\ IF \E k \in Call(p).add : db.home[k] \notin {Nothing, Call(p).home} THEN Refuse(p) ELSE ReadTo(p, 2, loc[p])
CreateFamily(p) ==
    LET h == Call(p).home  kids == Call(p).add IN
    /\ At(p, "family", 1)
    /\ Commit(p, [db EXCEPT !.open[h] = "active", !.home = Joined(db, h, kids),
                            !.homeLog = @ \o <<Entry(h, "CREATED", kids)>> \o (IF kids = {} THEN <<>> ELSE <<Entry(h, "STUDENT_ADDED", kids)>>)])
PatchFamily(p) ==
    LET h == Call(p).home  add == Call(p).add  out == Call(p).out  was == loc[p]
        home == [k \in Kids |-> IF k \in out /\ Joined(db, h, add)[k] = h THEN Nothing ELSE Joined(db, h, add)[k]]
        turn == IF Call(p).to = was THEN "UPDATED" ELSE IF Call(p).to = "active" THEN "REACTIVATED" ELSE "DEACTIVATED"
    IN /\ At(p, "members", 2)
       /\ Commit(p, [db EXCEPT !.open[h] = Call(p).to, !.home = home,
                !.homeLog = @ \o (IF add = {} THEN <<>> ELSE <<Entry(h, "STUDENT_ADDED", add)>>)
                              \o (IF out = {} THEN <<>> ELSE <<Entry(h, "STUDENT_REMOVED", out)>>) \o <<Entry(h, turn, {})>>])

-----------------------------------------------------------------------------
Init == HandlersInit

Next ==
    \/ \E p \in Procs :
          PriceRead(p) \/ PriceExpire(p) \/ PriceWrite(p) \/ PriceLog(p) \/ UpdateAmount(p) \/ DeletePrice(p) \/ SetCustom(p) \/ PayBill(p)
            \/ GenerateRead(p) \/ RegenerateDrop(p) \/ GeneratePrices(p) \/ Provision(p) \/ GenerateCharged(p) \/ GenerateFind(p) \/ GenerateBill(p)
            \/ RecalculateRead(p) \/ RecalculateWrite(p) \/ FamilyCheck(p) \/ CreateFamily(p) \/ PatchFamily(p)
    \/ Rest

Spec == Init /\ [][Next]_handlerVars

-----------------------------------------------------------------------------
(* Properties                                                              *)

TypeOK == HandlersTypeOK /\ db \in PlanTables

\* A line of a bill is one price, or the student's own amount: also where two changes of
\* the same price at once have left two that hold, or the class took over another's prices,
\* a head is not charged twice in a month.
LineIsOnePrice ==
    \A k \in Kids, m \in Terms : db.bill[k][m] # Nothing =>
        \A h \in Charged(db.bill[k][m].lines) \ {"custom"} :
            \/ \E n \in DOMAIN db.price : db.price[n] = Nothing \/ (db.price[n].head = h /\ db.price[n].amount = db.bill[k][m].lines[h])
            \/ db.bill[k][m].lines[h] \in scene.own

\* A one-time head stands in at most one bill of a student.
OneTimeOnce ==
    \A k \in Kids, h \in OneTimeHeads :
        Cardinality({m \in Terms : db.bill[k][m] # Nothing /\ h \in Charged(db.bill[k][m].lines)}) <= 1
=============================================================================
