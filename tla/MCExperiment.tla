---------------------------- MODULE MCExperiment ----------------------------
(* Instance of Experiment for TLC.  A corpus is written as a sequence of    *)
(* <<class, source, group, time>>; every class that is there has the rows   *)
(* to fit a model on, and classes interleave in each way a script could     *)
(* meet: apart, mixed, an attack before and after the benign rows.          *)
EXTENDS Experiment

MaxLength == 9

\* Three orders of every length, which test each row of three in turn
Orders ==
  {[n \in 0..MaxLength |-> [k \in 1..n |-> k]],
   [n \in 0..MaxLength |-> [k \in 1..n |-> n + 1 - k]],
   [n \in 0..MaxLength |-> [k \in 1..n |-> IF 2 * k - 1 <= n THEN 2 * k - 1 ELSE 2 * (n + 1 - k)]]}

MCShuffles == {<<a, b>> : a, b \in Orders}

Rows(s) ==
  [i \in DOMAIN s |-> [class |-> s[i][1], source |-> s[i][2], group |-> s[i][3], at |-> s[i][4]]]

\* Rows without a clock, from one host or from two
Untimed(classes) ==
  {Rows([i \in DOMAIN classes |-> <<classes[i], source[i], 1, 0>>]) :
     source \in {[i \in DOMAIN classes |-> 1], [i \in DOMAIN classes |-> 1 + (i % 2)]}}

ThreeClasses ==
  {<<"flood", "flood", "flood", "probe", "probe", "probe", "normal", "normal", "normal">>,
   <<"normal", "probe", "flood", "normal", "probe", "flood", "normal", "probe", "flood">>,
   <<"probe", "probe", "probe", "normal", "normal", "normal", "normal">>,
   <<"flood", "normal", "flood", "normal", "flood", "normal", "normal">>}

TwoClasses ==
  {<<"probe", "probe", "probe", "normal", "normal", "normal">>,
   <<"normal", "probe", "normal", "probe", "normal", "probe", "probe", "normal">>,
   <<"normal", "normal", "normal">>}

\* The NSL-KDD files: both classes of each lane on both sides
Files ==
  {Rows(<<<<"flood", 1, 1, 0>>, <<"normal", 2, 1, 0>>, <<"probe", 1, 1, 0>>, <<"normal", 1, 1, 0>>,
          <<"normal", 1, 2, 0>>, <<"flood", 1, 2, 0>>, <<"probe", 2, 2, 0>>>>),
   Rows(<<<<"normal", 1, 1, 0>>, <<"probe", 1, 1, 0>>, <<"flood", 1, 1, 0>>, <<"flood", 1, 1, 0>>,
          <<"probe", 1, 2, 0>>, <<"normal", 1, 2, 0>>, <<"flood", 1, 2, 0>>, <<"normal", 1, 2, 0>>>>)}

\* What generate_and_transmit_events sends: a host per class, one class after another
\* or mixed
Sent ==
  {Rows(<<<<"normal", 1, 1, 0>>, <<"flood", 2, 1, 1>>, <<"normal", 1, 1, 2>>, <<"probe", 3, 1, 3>>,
          <<"normal", 1, 2, 0>>, <<"probe", 3, 2, 1>>, <<"flood", 2, 2, 2>>, <<"normal", 1, 2, 4>>>>),
   Rows(<<<<"normal", 1, 1, 0>>, <<"normal", 1, 1, 1>>, <<"flood", 2, 1, 2>>, <<"probe", 3, 1, 4>>,
          <<"probe", 3, 2, 0>>, <<"flood", 2, 2, 1>>, <<"normal", 1, 2, 1>>>>)}

\* A day of CSE-CIC-IDS2018: the rebuilt flows share a source.  The times are those
\* that the gaps add up to.  A day that is not in the corpus has a file without rows.
Day(g, classes, gaps) ==
  [i \in DOMAIN classes |->
     <<classes[i], 1, g, FoldLeft(LAMBDA a, b : a + b, 0, SubSeq(gaps, 1, i - 1))>>]

FloodDay == {<<"flood", "normal", "flood", "normal", "flood", "normal">>,
             <<"normal", "normal", "flood", "flood", "normal", "flood">>}

ProbeDay == {<<"normal", "probe", "probe", "normal", "normal", "normal", "normal">>,
             <<"normal", "flood", "normal", "normal", "normal", "probe", "normal">>}

Gaps == {<<1, 1, 4, 1, 4, 1>>, <<4, 1, 1, 4, 4, 1>>, <<2, 4, 2, 4, 2, 4>>}

Capture2018 ==
  {Rows(Day(1, c, g)) : c \in FloodDay, g \in Gaps}
    \cup {Rows(Day(1, c, g) \o Day(3, d, h)) : c \in FloodDay, d \in ProbeDay, g, h \in Gaps}
    \cup {Rows(Day(1, c, g) \o Day(2, c, h) \o Day(3, d, h) \o Day(4, d, g)) :
            c \in FloodDay, d \in ProbeDay, g, h \in Gaps}

\* A day of CIC-DDoS2019: two hosts, either of which may flood
Hosts(classes, sources, g, gap) ==
  [i \in DOMAIN classes |-> <<classes[i], sources[i], g, gap * i>>]

Attacked == {<<"normal", "flood", "normal", "flood", "normal">>, <<"normal", "normal", "flood", "flood", "flood">>}
Senders == {<<1, 1, 2, 1, 2>>, <<1, 2, 2, 2, 2>>, <<1, 2, 2, 1, 1>>}

Capture2019 ==
  {Rows(Hosts(c, s, 1, gap)) : c \in Attacked, s \in Senders, gap \in {1, 3}}
    \cup {Rows(Hosts(c, s, 1, 1) \o Hosts(d, t, 2, 1)) : c, d \in Attacked, s, t \in Senders}

\* Captures of CIC IoT 2023, each of one class
Capture(class, g, times) == [i \in DOMAIN times |-> <<class, 1 + (i % 2), g, times[i]>>]

Captures2023 ==
  {Rows(Capture("flood", 1, <<0, 1, 2, 3>>) \o Capture("normal", 2, t) \o Capture("probe", 3, u)) :
     t, u \in {<<0, 1, 4>>, <<1, 2, 3, 4>>}}
    \cup {Rows(Capture("flood", 1, <<0, 1, 1>>) \o Capture("flood", 2, <<0, 4>>)
                 \o Capture("normal", 3, t) \o Capture("normal", 4, <<1, 3>>)
                 \o Capture("normal", 5, <<2>>) \o Capture("probe", 6, <<0, 1, 2>>)) :
            t \in {<<0, 5>>, <<0, 1, 2>>}}
    \cup {Rows(Capture("flood", 1, <<0, 1, 2, 3>>) \o Capture("normal", 2, <<0, 1, 2>>)),
          Rows(Capture("normal", 2, <<0, 1, 2>>))}

Of(scripts, downloads) == {[script |-> s, downloads |-> d] : s \in scripts, d \in downloads}
Once(S) == {<<r>> : r \in S}

\* Downloaded again with other files: without the scan, or without its days
Again ==
  Of({"cic", "unsw"}, {<<r, Rows([i \in 1..4 |-> <<IF i % 2 = 0 THEN "flood" ELSE "normal", 1, 1, 0>>])>> :
                         r \in Untimed(<<"probe", "flood", "flood", "probe", "probe", "normal", "normal", "normal">>)})
    \cup Of({"cicids2018"}, {<<Rows(d \o Day(3, p, g)), Rows(d)>> :
                               d \in {Day(1, c, <<1, 1, 4, 1, 4, 1>>) : c \in FloodDay},
                               p \in ProbeDay, g \in Gaps})
    \cup Of({"ciciot2023"}, {<<Rows(c \o Capture("probe", 3, <<0, 1, 2>>)), Rows(c)>> :
                               c \in {Capture("flood", 1, <<0, 1, 2, 3>>) \o Capture("normal", 2, <<0, 1, 2>>)}})

MCCorpora ==
  Of({"cic", "unsw"}, Once(UNION {Untimed(c) : c \in ThreeClasses}))
    \cup Of({"doh", "dnsexf"}, Once(UNION {Untimed(c) : c \in TwoClasses}))
    \cup Of({"repo"}, Once(Files)) \cup Of({"api"}, Once(Sent))
    \cup Of({"cicids2018"}, Once(Capture2018)) \cup Of({"cicddos2019"}, Once(Capture2019))
    \cup Of({"ciciot2023"}, Once(Captures2023)) \cup Again
    \cup Of({"cic", "unsw", "doh", "dnsexf", "cicids2018", "cicddos2019", "ciciot2023"}, {<<<<>>>>})

=============================================================================
