------------------------------ MODULE MCHart --------------------------------
EXTENDS Interp
MCIrq == {1, 3}
MCSIrq == {1}
MCStatusWrites ==
    {[ie |-> [p \in Priv |-> p \in on], spie |-> TRUE, mpie |-> TRUE,
      spp |-> PRV_U, mpp |-> mpp] :
        on \in {{}, {PRV_U, PRV_S, PRV_M}}, mpp \in {PRV_U, PRV_S}}
MCMidelegWrites == SUBSET MCSIrq
=============================================================================
