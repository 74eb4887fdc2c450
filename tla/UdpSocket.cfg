SPECIFICATION Spec
CONSTANT Tasks = {t1, t2, t3}
SYMMETRY Symmetry
INVARIANT ReservationsExact
PROPERTY NoCloseUnderIo
