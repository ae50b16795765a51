\* A uint16_t of two bits: each counter adds three times. The program ends in
\* while(1), or is ended.
CONSTANT U16 = 4
SPECIFICATION ThreadFairSpec
INVARIANTS IndInv SumIsComplete
PROPERTY JoinsEnd
CHECK_DEADLOCK FALSE
