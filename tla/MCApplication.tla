---------------------------- MODULE MCApplication ----------------------------
EXTENDS Application, TLC

CONSTANTS c1, c2, c3, a, b, m1, m2, t1, ana, ben, cy,
          done, restated, recorded, empty, k1, p1, p2, r1, u1

\* Columns: three cards, two pitches, two heights at the smaller one.
TallColumn == <<c1, c2, c3>>
Column_layouts == {[pitch |-> 4, viewportH |-> 2], [pitch |-> 2, viewportH |-> 2],
                   [pitch |-> 2, viewportH |-> 3]}

\* Search: "an" finds two contacts, "ant" one of them, the phone none.
SellersBook == ("" :> <<>>) @@ ("an" :> <<"ana", "anton">>)
            @@ ("ant" :> <<"anton">>) @@ ("305" :> <<>>)
Typed == DOMAIN SellersBook
Nothing_typed == ""
Long_enough == {"an", "ant", "305"}
Phones == {"305"}

\* Record: a's history holds a gap that is projected late.
Projected_past == {<<a, 1>>, <<a, 3>>, <<b, 2>>}
Projected_late == {<<a, 2>>}

\* My Day: two meetings and a task, about a midnight.
Meeting_starts == m1 :> 1 @@ m2 :> 2
Meeting_lasts  == m1 :> 1 @@ m2 :> 2
Task_due       == t1 :> 2

\* Standing: three sellers; a sale, a bigger one, a correction.
Sellers == <<ana, ben, cy>>
Amounts == {-1, 1, 3}

\* Ingest: the deliveries of one call: it ended, its disposition was changed,
\* its recording was saved.
Delivered(ev, c, s, d, r, u, cr, up) ==
    [event |-> ev, call |-> c, status |-> s, disposition |-> d, recording |-> r, user |-> u,
     created |-> cr, updated |-> up]

Envelopes ==
    [x \in {done, restated, recorded} |->
        CASE x = done     -> Delivered("OutboundPhoneCall-DispositionCompleted", k1, 9, p1, Absent,
                                       u1, 1, 2)
          [] x = restated -> Delivered("Call-Disposed", k1, 9, p2, Absent, u1, 1, 3)
          [] x = recorded -> Delivered("Recording-Saved", k1, Absent, Absent, r1, Absent, Absent, 4)]
=============================================================================
