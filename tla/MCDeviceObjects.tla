--------------------------- MODULE MCDeviceObjects ---------------------------
(* Instances of DeviceObjects for TLC. *)
EXTENDS DeviceObjects, TLC

CONSTANTS t1, t2, t3, pushers, poppers, done, x, y, w1, w2, a1, a2, a3, wlan

MCThreads == {t1, t2, t3}
MCLists == {pushers, poppers, done}

\* A finite time may outlast the behaviour, so that it stands for ever as well.
FiniteTimes == {"finite"}

MCMails == {x, y}

\* One thread reads the pipe and two write; one of two works is a delayed one.
MCReaders == {t1}
MCWorks == {w1, w2}
MCDelayed == {w2}

\* Two threads use the WLAN's configurations, of three stations, and its scan results; one thread
\* and the worker use its manager, with two.
MCUsers == {t2, t3}
MCJoiners == {t1}
MCAps == {a1, a2, a3}
MCStations == {a1, a2}

\* What a scan may report: two names, one station three times, once with its name hidden,
\* and one without a valid strength.
Report(ap, name, strength, ch, rate) ==
  [bssid |-> ap, ssid |-> name, rssi |-> strength, channel |-> ch, datarate |-> rate]
MCReports ==
  {Report("b1", <<"A">>, -40, 1, 11), Report("b1", <<"A">>, -70, 1, 11),
   Report("b1", << >>, -50, 1, 54), Report("b2", <<"A">>, -60, 6, 54),
   Report("b4", <<"A">>, -60, 1, 24), Report("b5", <<"B">>, 0, 6, 54)}

AllObjects == Objects
RingBufferOnly == {"ring buffer"}

\* The writers are interchangeable, and so are mails, bytes and keys, and stations.
Alike == Permutations({t2, t3}) \cup Permutations(MCMails) \cup Permutations(MCStations)
=============================================================================
