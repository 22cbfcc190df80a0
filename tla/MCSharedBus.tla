---------------------------- MODULE MCSharedBus ----------------------------
(***************************************************************************)
(* Three threads on one bus with 4 addresses in pages of 2 and bytes of 2  *)
(* bits: the thread of main, which maps the controllers and then holds the *)
(* CPU; a host that goes through the mutex of the CPU; and one that goes   *)
(* around it.                                                              *)
(***************************************************************************)
EXTENDS SharedBus

CONSTANTS main, host, device, ram, rom

MCRegions  == {<<0, 1>>, <<1, 2>>, <<3, 3>>}
MCThreads  == {main, host, device}

Setup == << Job(FALSE, << Insert(<<0, 1>>, ram) >>) >>

(* INC, a 16-bit operand, and an interrupt: a push, the handler, a vector. *)
Sessions ==
  {Job(TRUE, << Get(0, "bus"), Update(0, "bus") >>),
   Job(TRUE, ReadU16(0, "bus")),
   Job(TRUE, << Put(1, 2, "bus"), Get(0, "cpu") >>),
   Job(TRUE, << Put(1, 2, "bus"), Put(0, 3, "bus") >> \o ReadU16(3, "bus")),
   Job(TRUE, WriteU16(3, 1, 1, "bus"))}

HostJobs ==
  {<< Job(FALSE, WriteU16(0, 1, 2, "cpu")) >>,
   << Job(TRUE, << Get(0, "bus"), Update(0, "bus") >>),
      Job(FALSE, << Put(1, 3, "cpu") >>) >>,
   << Job(FALSE, ReadU16Wrap(1, "cpu")), Job(FALSE, ReadU16(3, "cpu")) >>}

DeviceJobs ==
  {<< Job(FALSE, WriteSigned(0, -1, "bus")) >>,
   << Job(FALSE, << Insert(<<3, 3>>, rom) >>) >>,
   << Job(FALSE, << Insert(<<1, 2>>, rom) >>), Job(FALSE, << Put(1, 1, "bus") >>) >>,
   << Job(FALSE, << Insert(<<0, 1>>, rom) >>) >>}

MCPrograms ==
  {[t \in MCThreads |->
      CASE t = main   -> Setup \o <<s>>
        [] t = host   -> h
        [] t = device -> d] : s \in Sessions, h \in HostJobs, d \in DeviceJobs}
=============================================================================
